---- MODULE Spec2Model ----
(***************************************************************************)
(* Model of the CS2 asset extractor: the shard planner                     *)
(* (StreamingVPKProcessor.getRequiredVPKArchives) and the extraction       *)
(* pipeline (StreamingVPKProcessor.processVPKFiles) with the two external  *)
(* tools it drives, DepotDownloader and Source2Viewer.                     *)
(*                                                                         *)
(* Strings are sequences of one-character strings, so that startsWith and  *)
(* padStart are computed character by character.                           *)
(***************************************************************************)
EXTENDS Integers, Sequences, FiniteSets, TLC

(***************************************************************************)
(* Bounds of the model.                                                    *)
(***************************************************************************)
\* largest number of entries of a directory
MaxFiles == 3
\* largest number of target folders given to the processor
MaxFolders == 2
\* largest archive index of a regular archive pak01_NNN.vpk
MaxArchive == 1
\* largest number of PNG images found below the output directory
MaxPng == 1
\* the largest options.maxAttempts runDepotDownloader is entered with
MaxAttemptsBound == 5
\* largest number of 'data' events of each stream of one command
MaxChunks == 2
\* largest number of image files selected from the directory
MaxImages == 22
\* largest number of files of one extractImagesFromVPK call that fail
MaxFailures == 2
\* largest number of lines the downloader prints for -manifest-only
MaxLines == 2

(***************************************************************************)
(* Program constants.                                                      *)
(***************************************************************************)
\* archiveIndex the vpk package reports for an entry whose data is stored
\* in pak01_dir.vpk itself (0x7fff in the VPK directory format)
DirArchiveIndex == 32767
\* new DepotDownloader({ downloadAttempts: 3 })
downloadAttempts == 3
\* archiveIndex.toString().padStart(3, "0")
PadLength == 3
\* vpkExtractor.js line 67
batchSize == 20

(***************************************************************************)
(* Strings.                                                                *)
(***************************************************************************)
Range(s) == {s[i] : i \in 1..Len(s)}

\* String.prototype.startsWith
StartsWith(s, prefix) ==
    /\ Len(prefix) <= Len(s)
    /\ \A i \in 1..Len(prefix) : s[i] = prefix[i]

DigitChar(d) == <<"0", "1", "2", "3", "4", "5", "6", "7", "8", "9">>[d + 1]

\* Number.prototype.toString for a non-negative integer
RECURSIVE NumToString(_)
NumToString(n) ==
    IF n < 10 THEN <<DigitChar(n)>>
    ELSE Append(NumToString(n \div 10), DigitChar(n % 10))

\* String.prototype.padStart with a one-character filler
RECURSIVE PadStart(_, _, _)
PadStart(s, targetLength, fill) ==
    IF Len(s) >= targetLength THEN s
    ELSE PadStart(<<fill>> \o s, targetLength, fill)

(***************************************************************************)
(* The inputs: directory entries and target folders.                       *)
(***************************************************************************)
\* logical paths an archive directory may list
FileNames ==
    { <<"a", "/", "x">>, <<"a", "/", "z">>, <<"b", "/", "y">>, <<"a", "b">> }

\* target folders a processor may be constructed with; "a" is a prefix of
\* "a/", so two folders can match the same entry
FolderNames == { <<"a", "/">>, <<"b", "/">>, <<"a">> }

\* the archive indices a directory entry can carry
ArchiveIndices == (0..MaxArchive) \cup {DirArchiveIndex}

\* fileInfo.archiveIndex: <<>> stands for undefined, <<n>> for the number n
Undefined == <<>>
FileInfos == {[archiveIndex |-> Undefined]}
                 \cup {[archiveIndex |-> <<n>>] : n \in ArchiveIndices}

SeqsUpTo(S, n) == UNION {[1..k -> S] : k \in 0..n}

IsInjective(s) == \A i, j \in 1..Len(s) : s[i] = s[j] => i = j

\* vpkDir.files: the keys of vpkDir.tree, each once, in the parser's order
FileLists == {s \in SeqsUpTo(FileNames, MaxFiles) : IsInjective(s)}

FolderLists == SeqsUpTo(FolderNames, MaxFolders)

\* the directories vpkDir.load() can produce: <<files, tree>>
Directories ==
    UNION { {<<fileList, fileTree>> :
                fileTree \in [Range(fileList) -> FileInfos]} :
            fileList \in FileLists }

VARIABLES
    vpkFolders,        \* this.vpkFolders
    files,             \* vpkDir.files
    tree,              \* vpkDir.tree
    pc,                \* position in the code
    requiredArchives,  \* the array returned by getRequiredVPKArchives
    results,           \* this.results
    dl,                \* the DepotDownloader operation the run is awaiting
    requests,          \* the calls made to the DepotDownloader, in order
    s2vInstalled,      \* the Source2Viewer executable exists
    s2vCalls,          \* the folders extractVPKFolder was called with
    extractions,       \* the array results of extractWithSource2Viewer
    stageLog,          \* the stages begun and ended, in order
    tempVpkDirExists,  \* the directory this.tempVpkDir exists
    thrown,            \* the error processVPKFiles was rejected with
    matching,          \* some entry of the loaded directory starts with
                       \* one of the folders
    child,             \* the process runCommand spawned and is waiting for
    orphaned,          \* a process killed at its timeout is still alive
    extractResult,     \* the value extractWithSource2Viewer returned
    cleanups,          \* the number of calls of cleanup()
    mainResults,       \* what main received from processVPKFiles
    mainPc,            \* where main of index.js is
    manifestFile,      \* the content of ./static/manifest.txt
    latestManifestId,  \* what getLatestManifestId returned to main
    forceFlag,         \* process.argv includes "--force"
    held,              \* what the caller of an earlier processVPKFiles
                       \* received
    manifestOutput,    \* what the downloader prints for -manifest-only
    command,           \* one call of runCommand: its promise, its timer
                       \* and its process
    imageFiles,        \* extractImagesFromVPK: the files selected
    batchStart,        \* extractImagesFromVPK: the loop variable
    fileIndex,         \* the number of files of the batch gone through
    imageResults,      \* extractImagesFromVPK: results
    attempted,         \* the files getFile was called for, in order
    imagePc            \* where extractImagesFromVPK is

planVars == <<vpkFolders, files, tree, pc, requiredArchives>>

runVars == <<results, dl, requests, s2vInstalled, s2vCalls, extractions,
             stageLog, tempVpkDirExists, thrown, matching, child, orphaned,
             extractResult, cleanups, mainResults>>

driverVars == <<mainPc, manifestFile, latestManifestId, forceFlag, held,
                manifestOutput>>

imageVars == <<imageFiles, batchStart, fileIndex, imageResults, attempted,
               imagePc>>

\* what processVPKFiles does not touch
extVars == <<driverVars, command, imageVars>>

vars == <<planVars, runVars, extVars>>

(***************************************************************************)
(* The shard planner.                                                      *)
(***************************************************************************)
\* an array in place of the Set: push without looking for the value
SetAddNoDedupe(set, v) == Append(set, v)

\* Set.prototype.add on a Set kept in insertion order
SetAdd(set, v) == IF v \in Range(set) THEN set ELSE Append(set, v)

\* the body of the inner loop once an entry starts with a folder
AddArchiveIndex(requiredIndices, fileInfo) ==
    IF fileInfo.archiveIndex # Undefined
    THEN SetAdd(requiredIndices, fileInfo.archiveIndex[1])
    ELSE requiredIndices

\* the loop with the break after the if: only the first folder is tested
ScanFoldersBreakEarly(requiredIndices, fileName, fileInfo, folders, i) ==
    IF i > Len(folders) THEN requiredIndices
    ELSE IF StartsWith(fileName, folders[i])
         THEN AddArchiveIndex(requiredIndices, fileInfo)
         ELSE requiredIndices

\* the loop without the startsWith test
ScanFoldersNoTest(requiredIndices, fileName, fileInfo, folders, i) ==
    IF i > Len(folders) THEN requiredIndices
    ELSE AddArchiveIndex(requiredIndices, fileInfo)

\* for (const folder of this.vpkFolders) { if (startsWith) { ...; break; } }
RECURSIVE ScanFolders(_, _, _, _, _)
ScanFolders(requiredIndices, fileName, fileInfo, folders, i) ==
    IF i > Len(folders) THEN requiredIndices
    ELSE IF StartsWith(fileName, folders[i])
         THEN AddArchiveIndex(requiredIndices, fileInfo)
         ELSE ScanFolders(requiredIndices, fileName, fileInfo, folders, i + 1)

\* for (const fileName of vpkDir.files) { ... }
RECURSIVE ScanFiles(_, _, _, _, _)
ScanFiles(requiredIndices, fileList, fileTree, folders, k) ==
    IF k > Len(fileList) THEN requiredIndices
    ELSE ScanFiles(
            ScanFolders(requiredIndices, fileList[k], fileTree[fileList[k]],
                        folders, 1),
            fileList, fileTree, folders, k + 1)

\* insert v into an ascending array, before the first larger element
RECURSIVE InsertSorted(_, _)
InsertSorted(sorted, v) ==
    IF sorted = <<>> THEN <<v>>
    ELSE IF v - Head(sorted) < 0 THEN <<v>> \o sorted
         ELSE <<Head(sorted)>> \o InsertSorted(Tail(sorted), v)

\* Array.prototype.sort((a, b) => a - b)
RECURSIVE SortNumeric(_)
SortNumeric(arr) ==
    IF arr = <<>> THEN <<>>
    ELSE InsertSorted(SortNumeric(Tail(arr)), Head(arr))

\* the planner leaving out the last entry of the directory
getRequiredVPKArchivesSkipLast(fileList, fileTree, folders) ==
    SortNumeric(ScanFiles(<<>>, SubSeq(fileList, 1, Len(fileList) - 1),
                          fileTree, folders, 1))

getRequiredVPKArchives(fileList, fileTree, folders) ==
    SortNumeric(ScanFiles(<<>>, fileList, fileTree, folders, 1))

(***************************************************************************)
(* The run of processVPKFiles.                                             *)
(***************************************************************************)
\* no command is running
NoChild == [event |-> "none", code |-> 0, stderr |-> ""]

\* the process ends with an exit code, having written stderr
Exited(code, stderr) == [event |-> "close", code |-> code, stderr |-> stderr]

\* the process is still running when the timer of runCommand fires
Hangs == [event |-> "timeout", code |-> 0, stderr |-> ""]

\* spawn emits 'error': the process could not be started
SpawnFails == [event |-> "error", code |-> 0, stderr |-> ""]

DiskFull == "No space left on device"

\* what a command spawned by runCommand can do
ChildBehaviours ==
    { Exited(0, ""), Exited(1, ""), Exited(1, DiskFull), Hangs, SpawnFails }

\* runCommand with a timer that resolves with success
runCommandTimeoutSucceeds(behaviour) ==
    IF behaviour.event = "timeout"
    THEN [success |-> TRUE, error |-> "null"]
    ELSE IF behaviour.event = "close"
    THEN [success |-> behaviour.code = 0,
          error |-> IF behaviour.code = 0 THEN "null"
                    ELSE "Process exited with code 1"]
    ELSE [success |-> FALSE, error |-> "spawn failed"]

\* what runCommand resolves with: the first of the timer, the 'close' event
\* and the 'error' event settles the promise; stderr goes to output, which
\* no caller reads
runCommand(behaviour) ==
    IF behaviour.event = "timeout"
    THEN [success |-> FALSE, error |-> "Command timed out"]
    ELSE IF behaviour.event = "close"
    THEN [success |-> behaviour.code = 0,
          error |-> IF behaviour.code = 0 THEN "null"
                    ELSE "Process exited with code 1"]
    ELSE [success |-> FALSE, error |-> "spawn failed"]

CommandResults == { runCommand(b) : b \in ChildBehaviours }

\* spawn(command, [], {shell: true, ...}) inside runCommand
Spawn == child' \in ChildBehaviours

\* the timer of runCommand calls child.kill("SIGKILL") and resolves without
\* waiting for 'close': the signal goes to the shell, the tool it started
\* can still be running
Kill ==
    orphaned' \in IF child.event = "timeout" THEN {orphaned, TRUE}
                  ELSE {orphaned}

\* waits are the delays of the setTimeout calls between the attempts, in
\* milliseconds
NoDownload ==
    [op |-> "none", attempt |-> 0, maxAttempts |-> 0, status |-> "idle",
     success |-> FALSE, error |-> "undefined", waits |-> <<>>]

\* runDepotDownloader entered with options.maxAttempts: the first attempt
\* is running
RunDepotDownloader(op, maxAttempts) ==
    [op |-> op, attempt |-> 1, maxAttempts |-> maxAttempts,
     status |-> "running", success |-> FALSE, error |-> "undefined",
     waits |-> <<>>]

\* downloadSpecificFiles and downloadMultipleFiles pass this.downloadAttempts
StartDownload(op) == RunDepotDownloader(op, downloadAttempts)

Min(a, b) == IF a < b THEN a ELSE b

\* the delay without Math.min
backoffTimeUncapped(attempt) == 30000 * 2^(attempt - 1)

\* lines 311-314: the delay after the failed attempt
backoffTime(attempt) == Min(30000 * 2^(attempt - 1), 120000)

\* this.results as the constructor sets it
NewResults == [downloaded |-> 0, extracted |-> 0, failed |-> 0, errors |-> <<>>]

NoError == <<>>

\* extractWithSource2Viewer has not returned
NoExtractResult ==
    [success |-> FALSE, error |-> "undefined", details |-> <<>>]

Begin(stage) == [ev |-> "begin", stage |-> stage]
End(stage) == [ev |-> "end", stage |-> stage]
Fail(stage) == [ev |-> "fail", stage |-> stage]

\* the pattern downloadSpecificFiles is called with for the directory file
DirFilePattern == <<"csgo/pak01_", "dir", "\\.vpk">>

\* the pattern without the padStart
ArchivePatternUnpadded(archiveIndex) ==
    <<"csgo/pak01_">> \o NumToString(archiveIndex) \o <<"\\.vpk">>

\* `csgo/pak01_${archiveIndex.toString().padStart(3, "0")}\\.vpk`
ArchivePattern(archiveIndex) ==
    <<"csgo/pak01_">> \o PadStart(NumToString(archiveIndex), PadLength, "0")
        \o <<"\\.vpk">>

\* requiredArchives.map(...) in downloadRequiredArchives
FilePatterns(archives) ==
    [i \in 1..Len(archives) |-> ArchivePattern(archives[i])]

\* the lines written to the filelist: filePatterns.map(p => `regex:${p}`)
FileListLines(filePatterns) ==
    [i \in 1..Len(filePatterns) |-> <<"regex:">> \o filePatterns[i]]

\* a call of downloadSpecificFiles or downloadMultipleFiles
Request(op, filePatterns) ==
    [op |-> op, filePatterns |-> filePatterns,
     fileList |-> FileListLines(filePatterns)]

\* prefix is an initial part of s
IsPrefixOf(prefix, s) == \E n \in 0..Len(s) : SubSeq(s, 1, n) = prefix

\* some entry of a directory starts with one of the folders
SomeEntryMatches(fileList, folders) ==
    \E k \in 1..Len(fileList), i \in 1..Len(folders) :
        IsPrefixOf(folders[i], fileList[k])

\* what loading a directory and planning gives, for each folder list
LoadOutcomes ==
    LET outcomes ==
            [folders \in FolderLists |->
                { [requiredArchives |->
                       getRequiredVPKArchives(d[1], d[2], folders),
                   matching |-> SomeEntryMatches(d[1], folders)]
                  : d \in Directories }]
    \* outcomes @@ <<>> is outcomes, computed once as a table
    IN outcomes @@ <<>>

\* no file at the path: readFileSync throws with code ENOENT
NoFile == [exists |-> FALSE, readable |-> FALSE, content |-> <<>>]

\* main of index.js is not part of the run
DriverIdle ==
    /\ mainPc = "none"
    /\ manifestFile = NoFile
    /\ latestManifestId = <<>>
    /\ forceFlag = FALSE
    /\ held = <<>>
    /\ manifestOutput = <<>>

\* no call of runCommand is looked into
NoCommand ==
    [settled |-> FALSE, result |-> [success |-> FALSE, error |-> "undefined"],
     resultOutput |-> 0, timer |-> "none", closed |-> FALSE,
     errored |-> FALSE, kills |-> 0, output |-> 0, errorOutput |-> 0,
     events |-> <<>>]

CommandIdle == command = NoCommand

\* vpkExtractor.js lines 25-29
NewImageResults == [extracted |-> 0, failed |-> 0, errors |-> <<>>]

\* extractImagesFromVPK is not called
ImagesIdle ==
    /\ imageFiles = <<>>
    /\ batchStart = 0
    /\ fileIndex = 0
    /\ imageResults = NewImageResults
    /\ attempted = <<>>
    /\ imagePc = "none"

Init ==
    /\ vpkFolders \in FolderLists
    /\ files = <<>>
    /\ tree = <<>>
    /\ pc = "start"
    /\ requiredArchives = <<>>
    /\ results = NewResults
    /\ dl = NoDownload
    /\ requests = <<>>
    /\ s2vInstalled \in BOOLEAN
    /\ s2vCalls = <<>>
    /\ extractions = <<>>
    /\ stageLog = <<>>
    /\ tempVpkDirExists \in BOOLEAN
    /\ thrown = NoError
    /\ matching = FALSE
    /\ child = NoChild
    /\ orphaned = FALSE
    /\ extractResult = NoExtractResult
    /\ cleanups = 0
    /\ mainResults = <<>>
    /\ DriverIdle
    /\ CommandIdle
    /\ ImagesIdle

\* cleanup(): rmSync removes the directory, or throws and is caught
Cleanup ==
    /\ \E removed \in BOOLEAN :
          tempVpkDirExists' = (tempVpkDirExists /\ ~removed)
    /\ cleanups' = cleanups + 1

\* throw inside the try block: the finally block runs, the promise rejects
\* with the Error, and main's catch block has the message only
Throw(error, log) ==
    /\ thrown' = error
    /\ stageLog' = log
    /\ Cleanup
    /\ mainResults' = <<>>
    /\ pc' = "Failed"

\* return this.results inside the try block: the finally block runs, and
\* main receives the object
Return(log) ==
    /\ thrown' = NoError
    /\ stageLog' = log
    /\ Cleanup
    /\ mainResults' = <<results'>>
    /\ pc' = "Done"

\* lines 21-41: create the directories, ask for the directory file
ProcessVPKFiles ==
    /\ pc = "start"
    /\ tempVpkDirExists' = TRUE
    /\ stageLog' = Append(stageLog, Begin("directoryFetch"))
    /\ requests' = Append(requests,
                          Request("downloadSpecificFiles", <<DirFilePattern>>))
    /\ dl' = StartDownload("downloadSpecificFiles")
    /\ Spawn
    /\ pc' = "awaitDirectory"
    /\ UNCHANGED <<vpkFolders, files, tree, requiredArchives, results,
                   s2vInstalled, s2vCalls, extractions, thrown, matching,
                   orphaned, extractResult, cleanups, mainResults>>
    /\ UNCHANGED extVars

\* the loop without attempt++: a failed attempt is followed by another one
\* as long as the commands fail
RunDepotDownloaderForever ==
    /\ dl.status = "running"
    /\ Kill
    /\ LET result == runCommand(child)
       IN IF result.success
          THEN /\ dl' = [dl EXCEPT !.status = "done", !.success = TRUE]
               /\ child' = NoChild
          ELSE /\ dl' = dl
               /\ Spawn
    /\ UNCHANGED <<planVars, results, requests, s2vInstalled, s2vCalls,
                   extractions, stageLog, tempVpkDirExists, thrown, matching,
                   extractResult, cleanups, mainResults>>
    /\ UNCHANGED extVars

\* the loop with attempt <= maxAttempts + 1
RunDepotDownloaderOneMore ==
    /\ dl.status = "running"
    /\ Kill
    /\ LET result == runCommand(child)
       IN IF result.success
          THEN /\ dl' = [dl EXCEPT !.status = "done", !.success = TRUE]
               /\ child' = NoChild
          ELSE IF dl.attempt < dl.maxAttempts + 1
          THEN /\ dl' = [dl EXCEPT !.attempt = @ + 1,
                                   !.waits = Append(@, backoffTime(dl.attempt))]
               /\ Spawn
          ELSE /\ dl' = [dl EXCEPT !.status = "done", !.success = FALSE,
                                   !.error = "Max attempts exceeded"]
               /\ child' = NoChild
    /\ UNCHANGED <<planVars, results, requests, s2vInstalled, s2vCalls,
                   extractions, stageLog, tempVpkDirExists, thrown, matching,
                   extractResult, cleanups, mainResults>>
    /\ UNCHANGED extVars

\* one pass of the loop of runDepotDownloader: the command of the running
\* attempt is settled; on failure the next attempt is spawned after the
\* backoff, unless it was the last one
RunDepotDownloaderAttempt ==
    /\ dl.status = "running"
    /\ Kill
    /\ LET result == runCommand(child)
       IN IF result.success
          THEN /\ dl' = [dl EXCEPT !.status = "done", !.success = TRUE]
               /\ child' = NoChild
          ELSE IF dl.attempt < dl.maxAttempts
          THEN /\ dl' = [dl EXCEPT !.attempt = @ + 1,
                                   !.waits = Append(@, backoffTime(dl.attempt))]
               /\ Spawn
          ELSE /\ dl' = [dl EXCEPT !.status = "done", !.success = FALSE,
                                   !.error = "Max attempts exceeded"]
               /\ child' = NoChild
    /\ UNCHANGED <<planVars, results, requests, s2vInstalled, s2vCalls,
                   extractions, stageLog, tempVpkDirExists, thrown, matching,
                   extractResult, cleanups, mainResults>>
    /\ UNCHANGED extVars

DirectoryFetchReturned ==
    /\ pc = "awaitDirectory"
    /\ dl.status = "done"

\* the failed directory fetch is asked for once more instead of thrown
DirectoryFetchRetried ==
    /\ DirectoryFetchReturned
    /\ ~dl.success
    /\ Len(requests) < 2
    /\ requests' = Append(requests,
                          Request("downloadSpecificFiles", <<DirFilePattern>>))
    /\ dl' = StartDownload("downloadSpecificFiles")
    /\ Spawn
    /\ UNCHANGED <<planVars, results, s2vInstalled, s2vCalls, extractions,
                   stageLog, tempVpkDirExists, thrown, matching, orphaned,
                   extractResult, cleanups, mainResults>>
    /\ UNCHANGED extVars

\* lines 43-45: the directory fetch failed
DirectoryFetchFailed ==
    /\ DirectoryFetchReturned
    /\ ~dl.success
    /\ Throw(<<"Failed to download VPK directory", dl.error>>,
             Append(stageLog, Fail("directoryFetch")))
    /\ dl' = NoDownload
    /\ UNCHANGED <<vpkFolders, files, tree, requiredArchives, results,
                   requests, s2vInstalled, s2vCalls, extractions, matching,
                   child, orphaned, extractResult>>
    /\ UNCHANGED extVars

\* lines 47-51: findVPKDirFile finds the file at none of its search paths
DirectoryFileMissing ==
    /\ DirectoryFetchReturned
    /\ dl.success
    /\ Throw(<<"Could not find pak01_dir.vpk file">>,
             stageLog \o <<End("directoryFetch"), Begin("planning"),
                           Fail("planning")>>)
    /\ dl' = NoDownload
    /\ UNCHANGED <<vpkFolders, files, tree, requiredArchives, results,
                   requests, s2vInstalled, s2vCalls, extractions, matching,
                   child, orphaned, extractResult>>
    /\ UNCHANGED extVars

\* the exception of vpkDir.load() is caught and logged, and the run goes on
\* to the batch download with no pattern
DirectoryMalformedSwallowed ==
    /\ DirectoryFetchReturned
    /\ dl.success
    /\ stageLog' = stageLog \o <<End("directoryFetch"), Begin("planning"),
                                 Fail("planning"), Begin("shardFetch")>>
    /\ requests' = Append(requests,
                          Request("downloadMultipleFiles", <<>>))
    /\ dl' = StartDownload("downloadMultipleFiles")
    /\ Spawn
    /\ pc' = "awaitBatch"
    /\ UNCHANGED <<vpkFolders, files, tree, requiredArchives, results,
                   s2vInstalled, s2vCalls, extractions, tempVpkDirExists,
                   thrown, matching, orphaned, extractResult, cleanups,
                   mainResults>>
    /\ UNCHANGED extVars

\* lines 53-55: vpkDir.load() throws on a blob that is no directory
DirectoryMalformed ==
    /\ DirectoryFetchReturned
    /\ dl.success
    /\ Throw(<<"vpk.load failed">>,
             stageLog \o <<End("directoryFetch"), Begin("planning"),
                           Fail("planning")>>)
    /\ dl' = NoDownload
    /\ UNCHANGED <<vpkFolders, files, tree, requiredArchives, results,
                   requests, s2vInstalled, s2vCalls, extractions, matching,
                   child, orphaned, extractResult>>
    /\ UNCHANGED extVars

\* without the test of requiredArchives.length: the batch download is called
\* with no pattern
NothingToExtractNoReturn ==
    /\ DirectoryFetchReturned
    /\ dl.success
    /\ \E loaded \in LoadOutcomes[vpkFolders] :
          /\ requiredArchives' = loaded.requiredArchives
          /\ matching' = loaded.matching
    /\ Len(requiredArchives') = 0
    /\ stageLog' = stageLog \o <<End("directoryFetch"), Begin("planning"),
                                 End("planning"), Begin("shardFetch")>>
    /\ requests' = Append(requests,
                          Request("downloadMultipleFiles",
                                  FilePatterns(requiredArchives')))
    /\ dl' = StartDownload("downloadMultipleFiles")
    /\ Spawn
    /\ pc' = "awaitBatch"
    /\ UNCHANGED <<vpkFolders, files, tree, results, s2vInstalled, s2vCalls,
                   extractions, tempVpkDirExists, thrown, orphaned,
                   extractResult, cleanups, mainResults>>
    /\ UNCHANGED extVars

\* lines 53-66: the directory loads and no archive is required
NothingToExtract ==
    /\ DirectoryFetchReturned
    /\ dl.success
    /\ \E loaded \in LoadOutcomes[vpkFolders] :
          /\ requiredArchives' = loaded.requiredArchives
          /\ matching' = loaded.matching
    /\ Len(requiredArchives') = 0
    /\ UNCHANGED results
    /\ Return(stageLog \o <<End("directoryFetch"), Begin("planning"),
                            End("planning")>>)
    /\ dl' = NoDownload
    /\ UNCHANGED <<vpkFolders, files, tree, requests, s2vInstalled,
                   s2vCalls, extractions, child, orphaned,
                   extractResult>>
    /\ UNCHANGED extVars

\* lines 53-75 and 175-200: the directory loads, archives are required and
\* downloadMultipleFiles is called with their patterns
DownloadRequiredArchives ==
    /\ DirectoryFetchReturned
    /\ dl.success
    /\ \E loaded \in LoadOutcomes[vpkFolders] :
          /\ requiredArchives' = loaded.requiredArchives
          /\ matching' = loaded.matching
    /\ Len(requiredArchives') # 0
    /\ stageLog' = stageLog \o <<End("directoryFetch"), Begin("planning"),
                                 End("planning"), Begin("shardFetch")>>
    /\ requests' = Append(requests,
                          Request("downloadMultipleFiles",
                                  FilePatterns(requiredArchives')))
    /\ dl' = StartDownload("downloadMultipleFiles")
    /\ Spawn
    /\ pc' = "awaitBatch"
    /\ UNCHANGED <<vpkFolders, files, tree, results, s2vInstalled, s2vCalls,
                   extractions, tempVpkDirExists, thrown, orphaned,
                   extractResult, cleanups, mainResults>>
    /\ UNCHANGED extVars

BatchFetchReturned ==
    /\ pc = "awaitBatch"
    /\ dl.status = "done"

\* the result of the batch download is not looked at: the extraction starts
BatchFetchFailureIgnored ==
    /\ BatchFetchReturned
    /\ ~dl.success
    /\ stageLog' = stageLog \o <<End("shardFetch"), Begin("extraction")>>
    /\ extractions' = <<>>
    /\ s2vCalls' = Append(s2vCalls, vpkFolders[1])
    /\ Spawn
    /\ dl' = NoDownload
    /\ pc' = "extracting"
    /\ UNCHANGED <<vpkFolders, files, tree, requiredArchives, results,
                   requests, s2vInstalled, tempVpkDirExists, thrown, matching,
                   orphaned, extractResult, cleanups, mainResults>>
    /\ UNCHANGED extVars

\* lines 202-206: the batch download failed
BatchFetchFailed ==
    /\ BatchFetchReturned
    /\ ~dl.success
    /\ Throw(<<"Failed to batch download VPK archives", dl.error>>,
             Append(stageLog, Fail("shardFetch")))
    /\ dl' = NoDownload
    /\ UNCHANGED <<vpkFolders, files, tree, requiredArchives, results,
                   requests, s2vInstalled, s2vCalls, extractions, matching,
                   child, orphaned, extractResult>>
    /\ UNCHANGED extVars

\* downloadRequiredArchives is not awaited: the extraction starts while the
\* batch download is running
ExtractWithoutAwait ==
    /\ pc = "awaitBatch"
    /\ stageLog' = stageLog \o <<Begin("extraction")>>
    /\ extractions' = <<>>
    /\ s2vCalls' = Append(s2vCalls, vpkFolders[1])
    /\ pc' = "extracting"
    /\ UNCHANGED <<vpkFolders, files, tree, requiredArchives, results, dl,
                   requests, s2vInstalled, tempVpkDirExists, thrown, matching,
                   child, orphaned, extractResult, cleanups,
                   mainResults>>
    /\ UNCHANGED extVars

\* lines 208-234 and part_000 25-70: the batch download succeeded,
\* extractVPKFolder is called for the first folder, the executable is
\* missing and downloadSource2Viewer throws "Unsupported platform"; neither
\* extractVPKFolder nor extractWithSource2Viewer catches
Source2ViewerUnsupported ==
    /\ BatchFetchReturned
    /\ dl.success
    /\ ~s2vInstalled
    /\ Throw(<<"Unsupported platform">>,
             stageLog \o <<End("shardFetch"), Begin("extraction"),
                           Fail("extraction")>>)
    /\ dl' = NoDownload
    /\ UNCHANGED <<vpkFolders, files, tree, requiredArchives, results,
                   requests, s2vInstalled, s2vCalls, extractions, matching,
                   child, orphaned, extractResult>>
    /\ UNCHANGED extVars

\* lines 208-234: the batch download succeeded, extractWithSource2Viewer
\* calls extractVPKFolder for the first folder, which spawns the decompiler
ExtractWithSource2Viewer ==
    /\ BatchFetchReturned
    /\ dl.success
    /\ stageLog' = stageLog \o <<End("shardFetch"), Begin("extraction")>>
    /\ extractions' = <<>>
    /\ s2vCalls' = Append(s2vCalls, vpkFolders[1])
    /\ Spawn
    /\ dl' = NoDownload
    /\ pc' = "extracting"
    /\ UNCHANGED <<vpkFolders, files, tree, requiredArchives, results,
                   requests, s2vInstalled, tempVpkDirExists, thrown, matching,
                   orphaned, extractResult, cleanups, mainResults>>
    /\ UNCHANGED extVars

\* extractVPKFolder returns: ensureSource2ViewerExists installed the tool or
\* failed to, and the command ran
FolderExtracted(r, installed) ==
    /\ pc = "extracting"
    /\ s2vInstalled => installed
    /\ ~installed => ~r.success
    /\ s2vInstalled' = installed
    /\ extractions' = Append(extractions, r)

\* the value with success only when every folder was extracted
ExtractResultAll(details) ==
    LET successfulExtractions ==
            Cardinality({i \in 1..Len(details) : details[i].success})
    IN [success |-> successfulExtractions = Len(details),
        error |-> IF successfulExtractions = 0
                  THEN "No folders could be extracted" ELSE "null",
        details |-> details]

\* lines 245-258: the value extractWithSource2Viewer returns
ExtractResult(details) ==
    LET successfulExtractions ==
            Cardinality({i \in 1..Len(details) : details[i].success})
    IN [success |-> successfulExtractions > 0,
        error |-> IF successfulExtractions = 0
                  THEN "No folders could be extracted" ELSE "null",
        details |-> details]

\* lines 81-102: the counters after the extraction; extractedImages is the
\* number of PNG files findExtractedImages finds below this.outputDir
Aggregate(result, extractedImages) ==
    IF result.success
    THEN [results EXCEPT !.extracted = extractedImages,
                         !.downloaded = Len(requiredArchives)]
    ELSE [results EXCEPT !.failed = @ + 1]

\* the loop with a break after a failed folder: the run goes on with the
\* folders extracted so far
ExtractNextFolderBreak ==
    /\ Len(extractions) + 1 < Len(vpkFolders)
    /\ \E installed \in BOOLEAN :
          FolderExtracted(runCommand(child), installed)
    /\ Kill
    /\ IF runCommand(child).success
       THEN /\ Spawn
            /\ s2vCalls' = Append(s2vCalls, vpkFolders[Len(extractions') + 1])
            /\ UNCHANGED <<results, stageLog, tempVpkDirExists, thrown, pc,
                           extractResult, cleanups, mainResults>>
       ELSE /\ child' = NoChild
            /\ extractResult' = ExtractResult(extractions')
            /\ \E extractedImages \in 0..MaxPng :
                  results' = Aggregate(extractResult', extractedImages)
            /\ Return(stageLog \o <<End("extraction"), Begin("aggregation"),
                                    End("aggregation")>>)
            /\ UNCHANGED s2vCalls
    /\ UNCHANGED <<vpkFolders, files, tree, requiredArchives, dl, requests,
                   matching>>
    /\ UNCHANGED extVars

\* lines 236-243 and 223-234: a folder is done and the next one is started
ExtractNextFolder ==
    /\ Len(extractions) + 1 < Len(vpkFolders)
    /\ \E installed \in BOOLEAN :
          FolderExtracted(runCommand(child), installed)
    /\ Kill
    /\ Spawn
    /\ s2vCalls' = Append(s2vCalls, vpkFolders[Len(extractions') + 1])
    /\ UNCHANGED <<planVars, results, dl, requests, stageLog,
                   tempVpkDirExists, thrown, matching,
                   extractResult, cleanups, mainResults>>
    /\ UNCHANGED extVars

\* lines 236-258 and 79-102: the last folder is done, the run returns
ExtractLastFolder ==
    /\ Len(extractions) + 1 = Len(vpkFolders)
    /\ \E installed \in BOOLEAN :
          FolderExtracted(runCommand(child), installed)
    /\ Kill
    /\ child' = NoChild
    /\ extractResult' = ExtractResult(extractions')
    /\ \E extractedImages \in 0..MaxPng :
          results' = Aggregate(extractResult', extractedImages)
    /\ Return(stageLog \o <<End("extraction"), Begin("aggregation"),
                            End("aggregation")>>)
    /\ UNCHANGED <<vpkFolders, files, tree, requiredArchives, dl, requests,
                   s2vCalls, matching>>
    /\ UNCHANGED extVars

\* the last process that outlived its kill at the timeout ends
OrphanExits ==
    /\ orphaned
    /\ orphaned' = FALSE
    /\ UNCHANGED <<planVars, results, dl, requests, s2vInstalled, s2vCalls,
                   extractions, stageLog, tempVpkDirExists, thrown, matching,
                   child, extractResult, cleanups, mainResults>>
    /\ UNCHANGED extVars

Next ==
    \/ ProcessVPKFiles
    \/ RunDepotDownloaderAttempt
    \/ DirectoryFetchFailed
    \/ DirectoryFileMissing
    \/ DirectoryMalformed
    \/ NothingToExtract
    \/ DownloadRequiredArchives
    \/ BatchFetchFailed
    \/ Source2ViewerUnsupported
    \/ ExtractWithSource2Viewer
    \/ ExtractNextFolder
    \/ ExtractLastFolder
    \/ OrphanExits

Spec == Init /\ [][Next]_vars

\* the event loop runs every continuation that is ready, and every command
\* is settled by its exit, its 'error' event or its timer
FairSpec == Spec /\ WF_vars(Next /\ ~OrphanExits)

(***************************************************************************)
(* The planner on its own: every directory and every folder list.          *)
(***************************************************************************)
InitPlan ==
    /\ vpkFolders \in FolderLists
    /\ \E d \in Directories : files = d[1] /\ tree = d[2]
    /\ pc = "plan"
    /\ requiredArchives = <<>>
    /\ results = NewResults
    /\ dl = NoDownload
    /\ requests = <<>>
    /\ s2vInstalled = FALSE
    /\ s2vCalls = <<>>
    /\ extractions = <<>>
    /\ stageLog = <<>>
    /\ tempVpkDirExists = FALSE
    /\ thrown = NoError
    /\ matching = FALSE
    /\ child = NoChild
    /\ orphaned = FALSE
    /\ extractResult = NoExtractResult
    /\ cleanups = 0
    /\ mainResults = <<>>
    /\ DriverIdle
    /\ CommandIdle
    /\ ImagesIdle

PlanShards ==
    /\ pc = "plan"
    /\ requiredArchives' = getRequiredVPKArchives(files, tree, vpkFolders)
    /\ pc' = "planned"
    /\ UNCHANGED <<vpkFolders, files, tree, runVars>>
    /\ UNCHANGED extVars

NextPlan == PlanShards

SpecPlan == InitPlan /\ [][NextPlan]_vars

(***************************************************************************)
(* Properties of the shard planner, under SpecPlan.                        *)
(***************************************************************************)
Planned == pc = "planned"

\* entry k of the directory starts with one of the folders
EntryMatches(k) ==
    \E i \in 1..Len(vpkFolders) : IsPrefixOf(vpkFolders[i], files[k])

\* entry k carries an archive index (its archiveIndex is not undefined)
HasArchiveIndex(k) == tree[files[k]].archiveIndex # Undefined

ArchiveIndexOf(k) == tree[files[k]].archiveIndex[1]

\* entry k is stored in the directory file itself
IsEmbedded(k) == HasArchiveIndex(k) /\ ArchiveIndexOf(k) = DirArchiveIndex

\* C1: the array the planner returns is in strictly ascending numeric
\* order, hence without duplicates
C1_StrictlyAscending ==
    Planned =>
        \A i, j \in 1..Len(requiredArchives) :
            i < j => requiredArchives[i] < requiredArchives[j]

\* a directory in which two matching entries share an archive and a third
\* one has a smaller index listed later: the planner has to dedupe and sort
C1_Witness ==
    /\ Planned
    /\ Len(requiredArchives) >= 2
    /\ \E k1, k2, k3 \in 1..Len(files) :
          /\ k1 < k2 /\ k2 < k3
          /\ EntryMatches(k1) /\ EntryMatches(k2) /\ EntryMatches(k3)
          /\ HasArchiveIndex(k1) /\ HasArchiveIndex(k2) /\ HasArchiveIndex(k3)
          /\ ArchiveIndexOf(k1) = ArchiveIndexOf(k2)
          /\ ArchiveIndexOf(k3) < ArchiveIndexOf(k1)

\* C2: the archive index of every matching entry that is stored in a
\* separate archive is in the array the planner returns
C2_Complete ==
    Planned =>
        \A k \in 1..Len(files) :
            (EntryMatches(k) /\ HasArchiveIndex(k) /\ ~IsEmbedded(k))
                => ArchiveIndexOf(k) \in Range(requiredArchives)

\* the scenario a/x -> 0, b/y -> 1, a/z -> 0 with the folders a/ and b/
C2_Witness ==
    /\ Planned
    /\ files = << <<"a", "/", "x">>, <<"b", "/", "y">>, <<"a", "/", "z">> >>
    /\ tree[<<"a", "/", "x">>].archiveIndex = <<0>>
    /\ tree[<<"b", "/", "y">>].archiveIndex = <<1>>
    /\ tree[<<"a", "/", "z">>].archiveIndex = <<0>>
    /\ vpkFolders = << <<"a", "/">>, <<"b", "/">> >>
    /\ requiredArchives = <<0, 1>>

\* C3: every index the planner returns is the archive index of an entry
\* that starts with one of the folders
C3_Minimal ==
    Planned =>
        \A i \in 1..Len(requiredArchives) :
            \E k \in 1..Len(files) :
                /\ EntryMatches(k)
                /\ HasArchiveIndex(k)
                /\ ArchiveIndexOf(k) = requiredArchives[i]

\* the scenario with the folder a/ alone: b/y -> 1 is in the directory, does
\* not match, and archive 1 is not planned
C3_Witness ==
    /\ Planned
    /\ files = << <<"a", "/", "x">>, <<"b", "/", "y">>, <<"a", "/", "z">> >>
    /\ tree[<<"a", "/", "x">>].archiveIndex = <<0>>
    /\ tree[<<"b", "/", "y">>].archiveIndex = <<1>>
    /\ tree[<<"a", "/", "z">>].archiveIndex = <<0>>
    /\ vpkFolders = << <<"a", "/">> >>
    /\ requiredArchives = <<0>>

\* C4: the index that marks an entry as stored in the directory file itself
\* is never in the array the planner returns
C4_EmbeddedNeverPlanned ==
    Planned => DirArchiveIndex \notin Range(requiredArchives)

\* the sequence with the elements at i and j exchanged
Swap(seq, i, j) ==
    [k \in 1..Len(seq) |-> IF k = i THEN seq[j] ELSE IF k = j THEN seq[i] ELSE seq[k]]

\* the sequence with one more copy of its element at i, put first or last
DuplicateFirst(seq, i) == <<seq[i]>> \o seq
DuplicateLast(seq, i) == Append(seq, seq[i])

\* C5: the planner returns the same array when two entries of the directory
\* change places, when two folders change places and when a folder is listed
\* once more, before or after the others. Every directory and every folder
\* list is an input, so the same holds for every reordering, also where the
\* first matching folder of an entry changes
C5_OrderInsensitive ==
    Planned =>
        /\ \A j \in 1..Len(files) : \A i \in 1..(j - 1) :
              getRequiredVPKArchives(Swap(files, i, j), tree, vpkFolders)
                  = requiredArchives
        /\ \A j \in 1..Len(vpkFolders) : \A i \in 1..(j - 1) :
              getRequiredVPKArchives(files, tree, Swap(vpkFolders, i, j))
                  = requiredArchives
        /\ \A i \in 1..Len(vpkFolders) :
              /\ getRequiredVPKArchives(files, tree,
                                        DuplicateFirst(vpkFolders, i))
                     = requiredArchives
              /\ getRequiredVPKArchives(files, tree,
                                        DuplicateLast(vpkFolders, i))
                     = requiredArchives

\* two folders that both match an entry which is not first in the directory,
\* and entries in two different archives
C5_Witness ==
    /\ Planned
    /\ Len(requiredArchives) >= 2
    /\ Len(vpkFolders) >= 2
    /\ vpkFolders[1] # vpkFolders[2]
    /\ \E k \in 2..Len(files) :
          /\ IsPrefixOf(vpkFolders[1], files[k])
          /\ IsPrefixOf(vpkFolders[2], files[k])

(***************************************************************************)
(* Properties of the run of processVPKFiles, under Spec.                   *)
(***************************************************************************)
Terminated == pc \in {"Done", "Failed"}

\* the calls of downloadMultipleFiles made so far
BatchRequests ==
    SelectSeq(requests, LAMBDA r : r.op = "downloadMultipleFiles")

\* the calls of downloadSpecificFiles made so far
FileRequests ==
    SelectSeq(requests, LAMBDA r : r.op = "downloadSpecificFiles")

\* the directory was loaded and the planner has returned
PlanningDone == End("planning") \in Range(stageLog)

\* C6: when the folder list is empty or no entry of the loaded directory
\* starts with a folder, the planner returns the empty array and the run
\* returns normally with downloaded = 0 and extracted = 0, without a batch
\* download and without a call of the decompiler
C6_NothingToDo ==
    (PlanningDone /\ (vpkFolders = <<>> \/ ~matching)) =>
        /\ requiredArchives = <<>>
        /\ pc = "Done"
        /\ thrown = NoError
        /\ results.downloaded = 0
        /\ results.extracted = 0
        /\ BatchRequests = <<>>
        /\ s2vCalls = <<>>

\* a run with folders of which none matches an entry of the directory
C6_Witness ==
    /\ pc = "Done"
    /\ PlanningDone
    /\ vpkFolders # <<>>
    /\ ~matching

\* the run with no folder at all
C6_WitnessNoFolder ==
    /\ pc = "Done"
    /\ PlanningDone
    /\ vpkFolders = <<>>

StageOrder ==
    <<"directoryFetch", "planning", "shardFetch", "extraction", "aggregation">>

\* the log is a beginning of: begin and end of each stage in StageOrder, one
\* after the other, where a stage that fails is the last one
StagesInOrder(log) ==
    /\ Len(log) <= 2 * Len(StageOrder)
    /\ \A n \in 1..Len(log) :
          LET stage == StageOrder[(n + 1) \div 2]
          IN IF n % 2 = 1
             THEN log[n] = Begin(stage)
             ELSE \/ log[n] = End(stage)
                  \/ log[n] = Fail(stage) /\ n = Len(log)

\* a call of an external tool is under way
DownloadRunning == dl.status = "running"
ExtractionRunning == pc = "extracting"

C7_Inv ==
    /\ StagesInOrder(stageLog)
    \* a tool runs only inside its own stage, which has begun and not ended
    /\ DownloadRunning =>
          /\ ~ExtractionRunning
          /\ stageLog # <<>>
          /\ stageLog[Len(stageLog)] =
                 IF dl.op = "downloadSpecificFiles"
                 THEN Begin("directoryFetch") ELSE Begin("shardFetch")
    /\ ExtractionRunning =>
          /\ stageLog[Len(stageLog)] = Begin("extraction")
          /\ Len(s2vCalls) = Len(extractions) + 1
    \* a run that is over has ended its last stage and runs no tool
    /\ Terminated =>
          /\ ~DownloadRunning
          /\ stageLog[Len(stageLog)].ev \in {"end", "fail"}
          /\ (pc = "Failed") = (stageLog[Len(stageLog)].ev = "fail")

\* C7: the stages of a run begin in the order directory fetch, planning,
\* shard fetch, extraction, aggregation, each after the one before has
\* ended and none twice; an external tool runs only inside its stage; and
\* after Done or Failed no stage begins and no external call is made
C7_StagesSequential ==
    /\ []C7_Inv
    /\ [][Terminated =>
            /\ stageLog' = stageLog
            /\ requests' = requests
            /\ s2vCalls' = s2vCalls
            /\ dl' = dl]_vars

\* a run that went through all five stages
C7_Witness ==
    /\ pc = "Done"
    /\ Len(stageLog) = 2 * Len(StageOrder)

\* the directory fetch has returned failure and the run has not yet acted
DirectoryFetchFailure ==
    pc = "awaitDirectory" /\ dl.status = "done" /\ ~dl.success

DirectoryUnavailable ==
    <<"Failed to download VPK directory", "Max attempts exceeded">>

\* C8: when the directory fetch returns failure, the run fails with the
\* directory error as its next step (the end of a process that outlived its
\* kill is no step of the run); the directory is not parsed, no batch
\* download is asked for, the decompiler is not called and the directory is
\* not asked for again
C8_DirectoryFetchFailure ==
    /\ [][(DirectoryFetchFailure /\ ~OrphanExits) =>
            /\ pc' = "Failed"
            /\ thrown' = DirectoryUnavailable
            /\ requests' = requests
            /\ dl'.status # "running"]_vars
    /\ []((pc = "Failed" /\ thrown = DirectoryUnavailable) =>
            /\ Len(FileRequests) = 1
            /\ BatchRequests = <<>>
            /\ s2vCalls = <<>>
            /\ Begin("planning") \notin Range(stageLog)
            /\ requiredArchives = <<>>)

C8_Witness == pc = "Failed" /\ thrown = DirectoryUnavailable

DigitValue(c) == CHOOSE d \in 0..9 : DigitChar(d) = c

RECURSIVE DecimalValue(_)
DecimalValue(chars) ==
    IF chars = <<>> THEN 0
    ELSE 10 * DecimalValue(SubSeq(chars, 1, Len(chars) - 1))
             + DigitValue(chars[Len(chars)])

\* p is csgo/pak01_<digits>\.vpk where the digits are the decimal form of
\* archiveIndex, filled with zeros at the left to three digits
IsPatternOf(p, archiveIndex) ==
    /\ Len(p) >= 2 + PadLength
    /\ p[1] = "csgo/pak01_"
    /\ p[Len(p)] = "\\.vpk"
    /\ LET digits == SubSeq(p, 2, Len(p) - 1)
       IN /\ \A i \in 1..Len(digits) : digits[i] \in {DigitChar(d) : d \in 0..9}
          /\ Len(digits) > PadLength => digits[1] # "0"
          /\ DecimalValue(digits) = archiveIndex

\* C9: a run makes at most one call of downloadMultipleFiles; when the
\* planner returned a non-empty array the call is made, with one pattern
\* per index, in the order of the array, the patterns of different indices
\* being different, each written to the file list as one regex line
C9_OneBatchRequest ==
    /\ Len(BatchRequests) <= 1
    /\ Len(FileRequests) <= 1
    /\ requiredArchives # <<>> =>
          /\ Len(BatchRequests) = 1
          /\ LET batch == BatchRequests[1]
             IN /\ Len(batch.filePatterns) = Len(requiredArchives)
                /\ \A i \in 1..Len(requiredArchives) :
                      IsPatternOf(batch.filePatterns[i], requiredArchives[i])
                /\ \A i, j \in 1..Len(batch.filePatterns) :
                      batch.filePatterns[i] = batch.filePatterns[j] => i = j
                /\ Len(batch.fileList) = Len(batch.filePatterns)
                /\ \A i \in 1..Len(batch.fileList) :
                      batch.fileList[i] = <<"regex:">> \o batch.filePatterns[i]

\* one call for two archives, of which one has an index below 100
C9_Witness ==
    /\ Len(requiredArchives) >= 2
    /\ requiredArchives[1] < 100
    /\ Len(BatchRequests) = 1
    /\ Len(BatchRequests[1].filePatterns) = Len(requiredArchives)
    /\ Terminated

\* the batch download has returned failure and the run has not yet acted
BatchFetchFailure ==
    pc = "awaitBatch" /\ dl.status = "done" /\ ~dl.success

ShardFetchError ==
    <<"Failed to batch download VPK archives", "Max attempts exceeded">>

\* C10: when the batch download returns failure, the run fails with the
\* batch download error as its next step (the end of a process that
\* outlived its kill is no step of the run), asks the downloader for nothing
\* more and never calls the decompiler
C10_BatchFetchFailure ==
    /\ [][(BatchFetchFailure /\ ~OrphanExits) =>
            /\ pc' = "Failed"
            /\ thrown' = ShardFetchError
            /\ requests' = requests
            /\ s2vCalls' = s2vCalls
            /\ dl'.status # "running"]_vars
    /\ []((pc = "Failed" /\ thrown = ShardFetchError) =>
            /\ Len(BatchRequests) = 1
            /\ Len(FileRequests) = 1
            /\ s2vCalls = <<>>
            /\ extractions = <<>>)

C10_Witness ==
    /\ pc = "Failed"
    /\ thrown = ShardFetchError
    /\ Len(requiredArchives) >= 2

(***************************************************************************)
(* Properties of the extraction stage.                                     *)
(***************************************************************************)
ExtractionBegun == Begin("extraction") \in Range(stageLog)
ExtractionEnded == End("extraction") \in Range(stageLog)

\* the folders whose decompiler command ended without success
FailedSelectors == {i \in 1..Len(extractions) : ~extractions[i].success}

C11_Inv ==
    \* the i-th invocation is for the i-th folder: listed order, none twice
    /\ Len(s2vCalls) <= Len(vpkFolders)
    /\ \A i \in 1..Len(s2vCalls) : s2vCalls[i] = vpkFolders[i]
    \* one recorded outcome for each invocation that has returned
    /\ Len(extractions) <= Len(s2vCalls)
    /\ Len(s2vCalls) <= Len(extractions) + 1
    /\ \A i \in 1..Len(extractions) : extractions[i] \in CommandResults
    /\ s2vCalls # <<>> => ExtractionBegun
    \* a stage that ran to its end has invoked every folder
    /\ ExtractionEnded =>
          /\ s2vCalls = vpkFolders
          /\ Len(extractions) = Len(vpkFolders)

\* C11: in the extraction stage the decompiler is invoked once for every
\* folder, in the order of the list, and each outcome is recorded on its
\* own; when the outcome of folder i is recorded and i is not the last
\* folder, folder i+1 is invoked in the same step, whether or not folder i
\* succeeded, and the outcomes recorded before stay as they are
C11_EverySelectorOnce ==
    /\ []C11_Inv
    /\ [][Len(extractions') # Len(extractions) =>
            /\ Len(extractions') = Len(extractions) + 1
            /\ SubSeq(extractions', 1, Len(extractions)) = extractions
            /\ Len(extractions') < Len(vpkFolders) =>
                  /\ pc' = "extracting"
                  /\ s2vCalls' =
                        Append(s2vCalls, vpkFolders[Len(extractions') + 1])]_vars

\* a run whose first folder failed and whose second folder succeeded
C11_Witness ==
    /\ pc = "Done"
    /\ Len(vpkFolders) >= 2
    /\ Len(extractions) = Len(vpkFolders)
    /\ ~extractions[1].success
    /\ extractions[2].success

\* C12: the extraction as a whole succeeds exactly when the decompiler
\* command of at least one folder succeeded; failed folders make it a
\* failure, counted once in results.failed, only when every folder failed
C12_OverallStatus ==
    ExtractionEnded =>
        /\ extractResult.details = extractions
        /\ extractResult.success <=>
              \E i \in 1..Len(extractions) : extractions[i].success
        /\ ~extractResult.success <=>
              FailedSelectors = 1..Len(vpkFolders)
        /\ (results.failed = 0) <=> extractResult.success
        /\ (extractResult.error = "null") <=> extractResult.success
        /\ pc = "Done"

\* a run whose first folder succeeded and whose second folder failed
C12_Witness ==
    /\ ExtractionEnded
    /\ Len(vpkFolders) >= 2
    /\ extractions[1].success
    /\ ~extractions[2].success
    /\ extractResult.success

\* a run in which every folder failed
C12_WitnessAllFailed ==
    /\ ExtractionEnded
    /\ Len(vpkFolders) >= 2
    /\ ~extractResult.success

\* entry n of the error list of the Run Result names folder i
ErrorNames(n, i) == results.errors[n].file = vpkFolders[i]

\* C13: when the decompiler command of exactly one of N > 1 folders failed,
\* the results object handed to the caller has exactly one entry in its
\* error list, which names the failed folder, all other folders have
\* succeeded, and the extraction as a whole is a success
C13_PartialFailure ==
    (ExtractionEnded /\ Len(vpkFolders) > 1
                     /\ Cardinality(FailedSelectors) = 1) =>
        /\ extractResult.success
        /\ mainResults = <<results>>
        /\ Len(extractions) - Cardinality(FailedSelectors)
               = Len(vpkFolders) - 1
        /\ Len(results.errors) = 1
        /\ \A i \in FailedSelectors : ErrorNames(1, i)

\* C14: when the decompiler command of every one of the N folders failed,
\* the extraction as a whole is a failure, the error list of the results
\* object has N entries, the i-th naming folder i, and the extracted count
\* is zero
C14_AllFailure ==
    (ExtractionEnded /\ FailedSelectors = 1..Len(vpkFolders)) =>
        /\ ~extractResult.success
        /\ results.failed > 0
        /\ results.extracted = 0
        /\ mainResults = <<results>>
        /\ Len(results.errors) = Len(vpkFolders)
        /\ \A i \in 1..Len(vpkFolders) : ErrorNames(i, i)

(***************************************************************************)
(* Properties of the external calls.                                       *)
(***************************************************************************)
\* the command of an attempt of the batch download is about to end with the
\* disk-exhaustion text on stderr
DiskFullAttempt ==
    /\ pc = "awaitBatch"
    /\ dl.status = "running"
    /\ child.event = "close"
    /\ child.stderr = DiskFull

\* the error carries the disk-exhaustion text
IsDiskExhaustion(error) == \E n \in 1..Len(error) : error[n] = DiskFull

\* C15: when an attempt of the batch download fails with "No space left on
\* device", the next step of the run is its failure with a disk-exhaustion
\* error: no further attempt is spawned and the decompiler is never called
C15_DiskExhaustion ==
    /\ [][(DiskFullAttempt /\ ~OrphanExits) =>
            /\ pc' = "Failed"
            /\ IsDiskExhaustion(thrown')
            /\ child' = NoChild
            /\ dl'.status # "running"
            /\ requests' = requests
            /\ s2vCalls' = s2vCalls]_vars
    /\ []((pc = "Failed" /\ IsDiskExhaustion(thrown)) => s2vCalls = <<>>)

C16_Inv ==
    \* cleanup() has run exactly when the run is over, and once
    /\ cleanups <= 1
    /\ Terminated <=> cleanups = 1
    \* no external call is under way when it has run
    /\ cleanups = 1 =>
          /\ child = NoChild
          /\ ~DownloadRunning
          /\ ~ExtractionRunning
    \* the directory is gone
    /\ Terminated => ~tempVpkDirExists

\* C16: a run that has created its directories ends, on each of its paths,
\* with one call of cleanup(), made when no external call is under way and
\* followed by none; afterwards this.tempVpkDir does not exist
C16_CleanupOnEveryExit ==
    /\ []C16_Inv
    /\ [][cleanups = 1 =>
            /\ cleanups' = 1
            /\ child' = NoChild
            /\ requests' = requests
            /\ s2vCalls' = s2vCalls
            /\ tempVpkDirExists' = tempVpkDirExists]_vars
    /\ (pc # "start") ~> (cleanups = 1)

\* C17: when the run is over, the caller has received the results object,
\* also when the run failed; the error a failed run ended with is an entry
\* of the error list of that object
C17_RunResultAlways ==
    Terminated =>
        /\ mainResults = <<results>>
        /\ pc = "Failed" =>
              \E n \in 1..Len(results.errors) :
                  results.errors[n].error = thrown

\* the command runCommand is waiting for has a process
ChildActive == child # NoChild /\ child.event # "error"

\* the processes started by the run that have not ended (of those that
\* outlived their kill, one is counted)
ActiveProcesses ==
    (IF ChildActive THEN 1 ELSE 0) + (IF orphaned THEN 1 ELSE 0)

\* C18: at every moment at most one process started by the run is alive: a
\* command is spawned only when the one before it has ended, also when
\* that one was ended by its timeout
C18_OneProcessAtATime ==
    /\ ActiveProcesses <= 1
    /\ ~(DownloadRunning /\ ExtractionRunning)

\* the process of the command the run is waiting for does not end before
\* the timer of runCommand fires
TimeoutPending == child.event = "timeout"

TimedOut == [success |-> FALSE, error |-> "Command timed out"]

\* C19: a command whose process has not ended when its timer fires is
\* settled as a failure, and the run handles it as one: the downloader
\* starts its next attempt or, after the last one, returns failure; the
\* extraction records the failure of the folder and goes on with the next
\* folder or with the aggregation. The run does not wait for the end of
\* such a process: the step that settles the command can be taken
C19_TimeoutEnforced ==
    /\ [][(TimeoutPending /\ ~OrphanExits) =>
            \/ /\ DownloadRunning
               /\ pc' = pc
               /\ IF dl.attempt < dl.maxAttempts
                  THEN /\ dl'.status = "running"
                       /\ dl'.attempt = dl.attempt + 1
                  ELSE /\ dl'.status = "done"
                       /\ ~dl'.success
                       /\ child' = NoChild
            \/ /\ ExtractionRunning
               /\ extractions' = Append(extractions, TimedOut)
               /\ IF Len(extractions') < Len(vpkFolders)
                  THEN /\ pc' = "extracting"
                       /\ Len(s2vCalls') = Len(s2vCalls) + 1
                  ELSE /\ pc' = "Done"
                       /\ extractResult'.details = extractions']_vars
    /\ [](child # NoChild <=> (DownloadRunning \/ ExtractionRunning))
    /\ [](TimeoutPending =>
            ENABLED (RunDepotDownloaderAttempt \/ ExtractNextFolder
                        \/ ExtractLastFolder))

\* a run that went on after the command of its first folder timed out
C19_Witness ==
    /\ pc = "Done"
    /\ Len(vpkFolders) >= 2
    /\ Len(extractions) = Len(vpkFolders)
    /\ extractions[1] = TimedOut
    /\ extractions[2].success

\* the command of the running attempt ends with exit code 0
AttemptSucceeds == child.event = "close" /\ child.code = 0

C20_Inv ==
    \* the attempts of an operation are numbered from 1 to 3, and one
    \* command is spawned for the attempt that is running
    /\ DownloadRunning =>
          /\ dl.maxAttempts = 3
          /\ dl.attempt \in 1..dl.maxAttempts
          /\ child # NoChild
    \* an operation that has returned made 1 to 3 attempts, and all 3 when
    \* it returned failure
    /\ dl.status = "done" =>
          /\ dl.attempt \in 1..dl.maxAttempts
          /\ ~dl.success => dl.attempt = dl.maxAttempts
          /\ child = NoChild
    \* the run calls downloadSpecificFiles once and downloadMultipleFiles
    \* at most once
    /\ Len(FileRequests) = (IF pc = "start" THEN 0 ELSE 1)
    /\ Len(BatchRequests) <= 1
    /\ Len(requests) = Len(FileRequests) + Len(BatchRequests)

\* C20: an operation of the downloader makes between one and three
\* attempts, one after the other: an attempt that succeeds is the last one
\* and the operation returns success; an attempt that fails is followed by
\* the next one, and after the third the operation returns failure; an
\* operation that has returned is not run again. The run calls
\* downloadSpecificFiles once and downloadMultipleFiles at most once
C20_BoundedAttempts ==
    /\ []C20_Inv
    /\ [][(DownloadRunning /\ ~OrphanExits) =>
            /\ dl'.op = dl.op
            /\ IF AttemptSucceeds
               THEN /\ dl'.status = "done"
                    /\ dl'.success
                    /\ dl'.attempt = dl.attempt
               ELSE IF dl.attempt < 3
               THEN /\ dl'.status = "running"
                    /\ dl'.attempt = dl.attempt + 1
               ELSE /\ dl'.status = "done"
                    /\ ~dl'.success
                    /\ dl'.attempt = dl.attempt]_vars
    /\ [][(dl.status = "done" /\ ~OrphanExits) =>
            /\ requests' = requests \/ dl'.attempt = 1
            /\ dl'.op # dl.op]_vars

\* a batch download that succeeded at its second attempt
C20_Witness ==
    /\ dl.op = "downloadMultipleFiles"
    /\ dl.status = "done"
    /\ dl.success
    /\ dl.attempt = 2

\* a batch download that failed three times
C20_WitnessFailure ==
    /\ dl.op = "downloadMultipleFiles"
    /\ dl.status = "done"
    /\ ~dl.success
    /\ dl.attempt = 3

(***************************************************************************)
(* The counters of the run result, under Spec.                             *)
(***************************************************************************)
\* the batch download of the archives returned success
ShardFetchSucceeded == End("shardFetch") \in Range(stageLog)

\* C23: a run that returns after its batch download succeeded returns
\* downloaded equal to the number of required archives, whether the
\* extraction succeeded or not
C23_DownloadedCount ==
    (pc = "Done" /\ ShardFetchSucceeded) =>
        /\ mainResults # <<>>
        /\ mainResults[1].downloaded = Len(requiredArchives)

(***************************************************************************)
(* The directory that cannot be used, under Spec.                          *)
(***************************************************************************)
\* the directory file was downloaded and then not found or not loaded
PlanningFailed == Fail("planning") \in Range(stageLog)

DirectoryErrors == { <<"Could not find pak01_dir.vpk file">>,
                     <<"vpk.load failed">> }

C25_Inv ==
    PlanningFailed =>
        /\ pc = "Failed"
        /\ thrown \in DirectoryErrors
        /\ mainResults = <<>>
        /\ BatchRequests = <<>>
        /\ Len(requests) = 1
        /\ s2vCalls = <<>>
        /\ extractions = <<>>
        /\ child = NoChild
        /\ cleanups = 1

C25_WitnessMissing ==
    /\ pc = "Failed"
    /\ PlanningFailed
    /\ thrown = <<"Could not find pak01_dir.vpk file">>
    /\ cleanups = 1

(***************************************************************************)
(* Termination, under FairSpec.                                            *)
(***************************************************************************)
\* C28: every run of processVPKFiles ends, returning or throwing, whatever
\* the commands do: exit with any code, fail to start, or never exit and be
\* settled by the timer
C28_Terminates == <>Terminated

\* a run that ended although a command of it never exited
C28_Witness ==
    /\ Terminated
    /\ orphaned

\* a run that returned after every folder's command was ended by its timer
C28_WitnessReturned ==
    /\ pc = "Done"
    /\ extractions # <<>>
    /\ \A i \in 1..Len(extractions) : extractions[i] = TimedOut

(***************************************************************************)
(* runDepotDownloader on its own: every number of attempts up to           *)
(* MaxAttemptsBound.                                                       *)
(***************************************************************************)
InitBackoff ==
    /\ vpkFolders = <<>>
    /\ files = <<>>
    /\ tree = <<>>
    /\ pc = "runDepotDownloader"
    /\ requiredArchives = <<>>
    /\ results = NewResults
    /\ \E maxAttempts \in 1..MaxAttemptsBound :
          dl = RunDepotDownloader("runDepotDownloader", maxAttempts)
    /\ requests = <<>>
    /\ s2vInstalled = FALSE
    /\ s2vCalls = <<>>
    /\ extractions = <<>>
    /\ stageLog = <<>>
    /\ tempVpkDirExists = FALSE
    /\ thrown = NoError
    /\ matching = FALSE
    /\ child \in ChildBehaviours
    /\ orphaned = FALSE
    /\ extractResult = NoExtractResult
    /\ cleanups = 0
    /\ mainResults = <<>>
    /\ DriverIdle
    /\ CommandIdle
    /\ ImagesIdle

NextBackoff == RunDepotDownloaderAttempt

SpecBackoff == InitBackoff /\ [][NextBackoff]_vars

C26_Inv ==
    \* one wait after each failed attempt that is not the last one
    /\ Len(dl.waits) = dl.attempt - 1
    /\ dl.attempt <= dl.maxAttempts
    /\ (dl.status = "done" /\ ~dl.success) =>
          Len(dl.waits) = dl.maxAttempts - 1
    \* 30 s, then twice the wait before, and 120 s at most
    /\ \A k \in 1..Len(dl.waits) :
          /\ dl.waits[k] = (IF k = 1 THEN 30000
                            ELSE IF 2 * dl.waits[k - 1] <= 120000
                            THEN 2 * dl.waits[k - 1]
                            ELSE 120000)
          /\ dl.waits[k] <= 120000
          /\ k > 1 => dl.waits[k] >= dl.waits[k - 1]
    \* the 3 attempts of the configuration
    /\ (dl.maxAttempts = 3 /\ dl.status = "done" /\ ~dl.success) =>
          dl.waits = <<30000, 60000>>

\* C26: runDepotDownloader waits after failed attempt k, for k below
\* maxAttempts, and not after the last attempt; the wait is 30000 ms after
\* the first attempt, twice the wait before after each later one, and
\* 120000 ms at most; with 3 attempts the waits are 30000 ms and 60000 ms
C26_Backoff ==
    /\ []C26_Inv
    /\ [][(DownloadRunning /\ dl'.attempt = dl.attempt) =>
            dl'.waits = dl.waits]_vars

\* five attempts failed: the fourth wait is cut to 120000 ms
C26_Witness ==
    /\ dl.status = "done"
    /\ ~dl.success
    /\ dl.maxAttempts = 5
    /\ dl.waits = <<30000, 60000, 120000, 120000>>

\* the three attempts of the configuration failed
C26_WitnessConfigured ==
    /\ dl.status = "done"
    /\ ~dl.success
    /\ dl.maxAttempts = 3
    /\ dl.waits = <<30000, 60000>>

(***************************************************************************)
(* One call of runCommand, event by event: the timer, the 'data' events of *)
(* stdout and stderr (counted), the 'close' event and the 'error' event of *)
(* the process.                                                            *)
(***************************************************************************)
\* lines 330-348: the promise is pending, the process is spawned and the
\* timer is set
InitCommand ==
    /\ vpkFolders = <<>>
    /\ files = <<>>
    /\ tree = <<>>
    /\ pc = "runCommand"
    /\ requiredArchives = <<>>
    /\ results = NewResults
    /\ dl = NoDownload
    /\ requests = <<>>
    /\ s2vInstalled = FALSE
    /\ s2vCalls = <<>>
    /\ extractions = <<>>
    /\ stageLog = <<>>
    /\ tempVpkDirExists = FALSE
    /\ thrown = NoError
    /\ matching = FALSE
    /\ child = NoChild
    /\ orphaned = FALSE
    /\ extractResult = NoExtractResult
    /\ cleanups = 0
    /\ mainResults = <<>>
    /\ DriverIdle
    /\ command = [NoCommand EXCEPT !.timer = "armed"]
    /\ ImagesIdle

\* resolve of a promise where the last call wins
ResolveLast(cmd, value) ==
    [cmd EXCEPT !.settled = TRUE, !.result = value,
                !.resultOutput = cmd.output + cmd.errorOutput]

\* resolve(value): the first call settles the promise, a later call does
\* nothing; the value carries the output received so far
Resolve(cmd, value) ==
    IF cmd.settled THEN cmd
    ELSE [cmd EXCEPT !.settled = TRUE, !.result = value,
                     !.resultOutput = cmd.output + cmd.errorOutput]

\* clearTimeout(timeoutId)
ClearTimeout(cmd) ==
    [cmd EXCEPT !.timer = IF @ = "armed" THEN "cleared" ELSE @]

Event(type, code) == [type |-> type, code |-> code]

\* lines 350-360: a 'data' event of stdout
CommandStdout ==
    /\ ~command.closed
    /\ command.output < MaxChunks
    /\ command' = [command EXCEPT !.output = @ + 1]
    /\ UNCHANGED <<planVars, runVars, driverVars, imageVars>>

\* lines 362-372: a 'data' event of stderr
CommandStderr ==
    /\ ~command.closed
    /\ command.errorOutput < MaxChunks
    /\ command' = [command EXCEPT !.errorOutput = @ + 1]
    /\ UNCHANGED <<planVars, runVars, driverVars, imageVars>>

\* lines 341-348: the timer fires
CommandTimeout ==
    /\ command.timer = "armed"
    /\ command' = Resolve([command EXCEPT
                              !.timer = "fired",
                              !.kills = @ + 1,
                              !.events = Append(@, Event("timeout", 0))],
                          runCommand(Hangs))
    /\ UNCHANGED <<planVars, runVars, driverVars, imageVars>>

\* lines 374-386: the 'close' event
CommandClose ==
    /\ ~command.closed
    /\ \E code \in {0, 1} :
          command' = Resolve(ClearTimeout(
                                 [command EXCEPT
                                     !.closed = TRUE,
                                     !.events = Append(@, Event("close",
                                                                code))]),
                             runCommand(Exited(code, "")))
    /\ UNCHANGED <<planVars, runVars, driverVars, imageVars>>

\* lines 388-395: the 'error' event
CommandError ==
    /\ ~command.closed
    /\ ~command.errored
    /\ command' = Resolve(ClearTimeout(
                              [command EXCEPT
                                  !.errored = TRUE,
                                  !.events = Append(@, Event("error", 0))]),
                          runCommand(SpawnFails))
    /\ UNCHANGED <<planVars, runVars, driverVars, imageVars>>

NextCommand ==
    \/ CommandStdout
    \/ CommandStderr
    \/ CommandTimeout
    \/ CommandClose
    \/ CommandError

SpecCommand == InitCommand /\ [][NextCommand]_vars

\* what the handler of an event resolves with
OutcomeOf(event) ==
    IF event.type = "timeout"
    THEN [success |-> FALSE, error |-> "Command timed out"]
    ELSE IF event.type = "close"
    THEN [success |-> event.code = 0,
          error |-> IF event.code = 0 THEN "null"
                    ELSE "Process exited with code 1"]
    ELSE [success |-> FALSE, error |-> "spawn failed"]

EventTypes(cmd) == { cmd.events[i].type : i \in 1..Len(cmd.events) }

C27_Inv ==
    \* the promise is settled when the first event has happened, with the
    \* outcome of that event
    /\ command.settled <=> command.events # <<>>
    /\ command.settled => command.result = OutcomeOf(command.events[1])
    \* each of the three events happens once at most
    /\ \A i, j \in 1..Len(command.events) :
          command.events[i].type = command.events[j].type => i = j
    \* the process is killed by the timer and by nothing else, and the
    \* timer does not fire after a 'close' or 'error' event
    /\ command.kills = (IF "timeout" \in EventTypes(command) THEN 1 ELSE 0)
    /\ (command.events # <<>> /\ command.events[1].type # "timeout") =>
          /\ command.timer = "cleared"
          /\ command.kills = 0
    /\ command.timer = "armed" <=> command.events = <<>>

\* C27: the promise of runCommand is settled once, by the first of the
\* timer, the 'close' event and the 'error' event, with the outcome of that
\* event; an event that comes later leaves the outcome as it is; after a
\* 'close' or 'error' event the timer is cleared and the process is not
\* killed
C27_OneOutcome ==
    /\ []C27_Inv
    /\ [][command.settled =>
            /\ command'.settled
            /\ command'.result = command.result
            /\ command'.resultOutput = command.resultOutput]_vars
    /\ [][command.timer = "cleared" =>
            /\ command'.timer = "cleared"
            /\ command'.kills = command.kills]_vars

\* the process closes with exit code 0 after the timer has fired
C27_Witness ==
    /\ command.events = <<Event("timeout", 0), Event("close", 0)>>
    /\ command.result = [success |-> FALSE, error |-> "Command timed out"]

\* an 'error' event and then a 'close' event with exit code 0
C27_WitnessError ==
    /\ command.events = <<Event("error", 0), Event("close", 0)>>
    /\ command.result = [success |-> FALSE, error |-> "spawn failed"]

\* the process closes before the timer fires
C27_WitnessClose ==
    /\ command.events = <<Event("close", 0)>>
    /\ command.result.success
    /\ command.timer = "cleared"
    /\ command.kills = 0

(***************************************************************************)
(* extractImagesFromVPK (vpkExtractor.js) from the batch loop on: every    *)
(* number of selected files up to MaxImages, every outcome of each file.   *)
(***************************************************************************)
\* the text is part of the message, as String.prototype.includes finds it;
\* a message is the sequence of its parts
Includes(message, text) == \E i \in 1..Len(message) : message[i] = text

\* messages of the errors getFile, mkdirSync and writeFileSync throw
ErrorMessages ==
    { <<"EACCES: permission denied, open">>,
      <<"ENOSPC", ": no space left on device, write">>,
      <<"write failed: ", "No space left", " on device">> }

NoData == [kind |-> "noData", message |-> <<>>]
Written == [kind |-> "written", message |-> <<>>]
Threw(message) == [kind |-> "error", message |-> message]

\* what happens to one file: getFile returns data and it is written,
\* getFile returns nothing, or one of the calls throws
FileOutcomes == {Written, NoData} \cup { Threw(m) : m \in ErrorMessages }

\* the test with ENOSPC only
IsDiskSpaceErrorCodeOnly(message) == Includes(message, "ENOSPC")

\* lines 115-118
IsDiskSpaceError(message) ==
    Includes(message, "ENOSPC") \/ Includes(message, "No space left")

\* lines 38-62 leave the selected files in imageFiles: k stands for the
\* name of the k-th of them
InitImages ==
    /\ vpkFolders = <<>>
    /\ files = <<>>
    /\ tree = <<>>
    /\ pc = "extractImagesFromVPK"
    /\ requiredArchives = <<>>
    /\ results = NewResults
    /\ dl = NoDownload
    /\ requests = <<>>
    /\ s2vInstalled = FALSE
    /\ s2vCalls = <<>>
    /\ extractions = <<>>
    /\ stageLog = <<>>
    /\ tempVpkDirExists = FALSE
    /\ thrown = NoError
    /\ matching = FALSE
    /\ child = NoChild
    /\ orphaned = FALSE
    /\ extractResult = NoExtractResult
    /\ cleanups = 0
    /\ mainResults = <<>>
    /\ DriverIdle
    /\ CommandIdle
    /\ \E n \in 0..MaxImages : imageFiles = [k \in 1..n |-> k]
    /\ batchStart = 0
    /\ fileIndex = 0
    /\ imageResults = NewImageResults
    /\ attempted = <<>>
    /\ imagePc = "loop"

\* imageFiles.slice(from, to) with 0-based from and to
Slice(arr, from, to) == SubSeq(arr, from + 1, Min(to, Len(arr)))

\* the batch taken one file further than batchEnd
BatchOverlapping ==
    Slice(imageFiles, batchStart,
          Min(batchStart + batchSize, Len(imageFiles)) + 1)

\* lines 73-74
Batch ==
    Slice(imageFiles, batchStart, Min(batchStart + batchSize, Len(imageFiles)))

\* lines 68-80: the loop condition holds, the batch is taken
ImagesNextBatch ==
    /\ imagePc = "loop"
    /\ batchStart < Len(imageFiles)
    /\ fileIndex' = 0
    /\ imagePc' = "batch"
    /\ UNCHANGED <<imageFiles, batchStart, imageResults, attempted>>
    /\ UNCHANGED <<planVars, runVars, driverVars, command>>

\* results.failed++ and results.errors.push
RecordFailure(res, fileName, error) ==
    [res EXCEPT !.failed = @ + 1,
                !.errors = Append(@, [file |-> fileName, error |-> error])]

\* lines 82-136: one pass of the inner loop
ImagesFile ==
    /\ imagePc = "batch"
    /\ fileIndex < Len(Batch)
    /\ LET fileName == Batch[fileIndex + 1]
       IN \E outcome \in FileOutcomes :
             /\ attempted' = Append(attempted,
                                    [file |-> fileName, outcome |-> outcome])
             /\ IF outcome.kind = "written"
                THEN /\ imageResults' =
                            [imageResults EXCEPT !.extracted = @ + 1]
                     /\ fileIndex' = fileIndex + 1
                     /\ imagePc' = "batch"
                ELSE IF /\ outcome.kind = "error"
                        /\ IsDiskSpaceError(outcome.message)
                THEN /\ imagePc' = "thrown"
                     /\ UNCHANGED <<imageResults, fileIndex>>
                ELSE /\ imageResults.failed < MaxFailures
                     /\ imageResults' =
                            RecordFailure(
                                imageResults, fileName,
                                IF outcome.kind = "noData"
                                THEN <<"Could not read file data from VPK">>
                                ELSE outcome.message)
                     /\ fileIndex' = fileIndex + 1
                     /\ imagePc' = "batch"
    /\ UNCHANGED <<imageFiles, batchStart>>
    /\ UNCHANGED <<planVars, runVars, driverVars, command>>

\* line 139: the inner loop is over, the timer of 200 ms is set
ImagesBatchDone ==
    /\ imagePc = "batch"
    /\ fileIndex = Len(Batch)
    /\ imagePc' = "delay"
    /\ UNCHANGED <<imageFiles, batchStart, fileIndex, imageResults,
                   attempted>>
    /\ UNCHANGED <<planVars, runVars, driverVars, command>>

\* lines 139 and 71: the timer fires, batchStart += batchSize
ImagesDelayOver ==
    /\ imagePc = "delay"
    /\ batchStart' = batchStart + batchSize
    /\ imagePc' = "loop"
    /\ UNCHANGED <<imageFiles, fileIndex, imageResults, attempted>>
    /\ UNCHANGED <<planVars, runVars, driverVars, command>>

\* lines 142-146: the loop condition fails, results is returned
ImagesReturn ==
    /\ imagePc = "loop"
    /\ batchStart >= Len(imageFiles)
    /\ imagePc' = "returned"
    /\ UNCHANGED <<imageFiles, batchStart, fileIndex, imageResults,
                   attempted>>
    /\ UNCHANGED <<planVars, runVars, driverVars, command>>

NextImages ==
    \/ ImagesNextBatch
    \/ ImagesFile
    \/ ImagesBatchDone
    \/ ImagesDelayOver
    \/ ImagesReturn

SpecImages == InitImages /\ [][NextImages]_vars

(***************************************************************************)
(* Properties of extractImagesFromVPK, under SpecImages.                   *)
(***************************************************************************)
\* the files gone through so far, in the order of the calls of getFile
AttemptedFiles == [k \in 1..Len(attempted) |-> attempted[k].file]

\* the error of the last file gone through ended the call
Aborted == imagePc = "thrown"

C29_Inv ==
    \* the files gone through are the first ones of the list, in its order,
    \* each once
    /\ AttemptedFiles = SubSeq(imageFiles, 1, Len(attempted))
    \* a file is counted as extracted or as failed, unless its error ended
    \* the call
    /\ imageResults.extracted + imageResults.failed =
          Len(attempted) - (IF Aborted THEN 1 ELSE 0)
    /\ Len(imageResults.errors) = imageResults.failed
    \* a batch has 20 files at most and starts where the one before ended
    /\ imagePc \in {"batch", "delay", "thrown"} =>
          /\ Len(attempted) = batchStart + fileIndex + (IF Aborted THEN 1
                                                        ELSE 0)
          /\ fileIndex <= 20
          /\ batchStart % 20 = 0
          /\ batchStart < Len(imageFiles)
    /\ imagePc = "delay" =>
          Len(attempted) \in {batchStart + 20, Len(imageFiles)}
    /\ imagePc = "loop" => Len(attempted) = Min(batchStart, Len(imageFiles))
    \* the call returns when every file has been gone through
    /\ imagePc = "returned" =>
          /\ AttemptedFiles = imageFiles
          /\ imageResults.extracted + imageResults.failed = Len(imageFiles)

\* C29: extractImagesFromVPK goes through the selected files in the order of
\* the list, each once, in batches of 20 files at most; at every point
\* extracted + failed is the number of files gone through (the file whose
\* disk-space error ends the call is in neither counter) and errors has one
\* entry for each failed file; when the call returns, extracted + failed is
\* the number of selected files
C29_EveryFileOnce ==
    /\ []C29_Inv
    /\ [][/\ Len(attempted') \in {Len(attempted), Len(attempted) + 1}
          /\ SubSeq(attempted', 1, Len(attempted)) = attempted]_vars

\* 22 files went through in two batches and the call returned with files
\* extracted and files failed
C29_Witness ==
    /\ imagePc = "returned"
    /\ Len(imageFiles) > 20
    /\ imageResults.extracted > 0
    /\ imageResults.failed = 2
    /\ Len(imageResults.errors) = 2

\* the message has the text the code looks for
DiskSpaceMessage(message) ==
    \E i \in 1..Len(message) : message[i] \in {"ENOSPC", "No space left"}

C30_Inv ==
    \A k \in 1..Len(attempted) :
        LET outcome == attempted[k].outcome
            recorded == { n \in 1..Len(imageResults.errors) :
                            imageResults.errors[n].file = attempted[k].file }
        IN IF outcome.kind = "error" /\ DiskSpaceMessage(outcome.message)
           \* the call ended at this file, which is in no counter
           THEN /\ Aborted
                /\ k = Len(attempted)
                /\ recorded = {}
           ELSE IF outcome.kind = "written"
           THEN recorded = {}
           \* one entry of errors, with the message
           ELSE /\ Cardinality(recorded) = 1
                /\ \A n \in recorded :
                      imageResults.errors[n].error =
                         (IF outcome.kind = "noData"
                          THEN <<"Could not read file data from VPK">>
                          ELSE outcome.message)

\* C30: an error whose message has ENOSPC or "No space left" in it ends
\* extractImagesFromVPK with a throw at that file: no file is gone through
\* afterwards and the counters stay; every other failure of a file adds one
\* to failed and one entry to errors, and the files after it are still gone
\* through
C30_DiskSpaceAborts ==
    /\ []C30_Inv
    /\ [](Aborted =>
            /\ attempted # <<>>
            /\ attempted[Len(attempted)].outcome.kind = "error"
            /\ DiskSpaceMessage(attempted[Len(attempted)].outcome.message))
    /\ [][Aborted => UNCHANGED imageVars]_vars
    /\ [](imagePc = "returned" => Len(attempted) = Len(imageFiles))

\* the call ended at a file of the first batch after a failure was
\* recorded, with files of this batch and a later batch left
C30_Witness ==
    /\ Aborted
    /\ Len(imageFiles) > 20
    /\ Len(attempted) < 20
    /\ imageResults.failed > 0
    /\ Includes(attempted[Len(attempted)].outcome.message, "No space left")

\* a file failed with another error and the files after it were extracted
C30_WitnessContinues ==
    /\ imagePc = "returned"
    /\ Len(attempted) >= 3
    /\ attempted[1].outcome.kind = "error"
    /\ attempted[2].outcome.kind = "written"
    /\ imageResults.failed = 1

(***************************************************************************)
(* main of index.js around the run: the manifest id, the marker file       *)
(* ./static/manifest.txt, the --force flag, one processVPKFiles call.      *)
(***************************************************************************)
\* index.js lines 18-32: the folder list main passes to the processor, two
\* folders standing for the thirteen
MainFolders == << <<"a", "/">>, <<"b", "/">> >>

\* what getLatestManifestId returns: the digits a pattern matched
ManifestIds == { <<"1">>, <<"2">> }

\* a file with this content
File(content) == [exists |-> TRUE, readable |-> TRUE, content |-> content]

\* a path readFileSync fails at with a code other than ENOENT
Unreadable == [exists |-> TRUE, readable |-> FALSE, content |-> <<>>]

\* what can be at ./static/manifest.txt when main starts
MarkerFiles ==
    { NoFile, Unreadable, File(<<>>), File(<<"1">>), File(<<"2">>),
      File(<<"1", "\n">>), File(<<" ", "2">>) }

WhiteSpace == {" ", "\n"}

RECURSIVE TrimStart(_)
TrimStart(s) ==
    IF s # <<>> /\ Head(s) \in WhiteSpace THEN TrimStart(Tail(s)) ELSE s

RECURSIVE TrimEnd(_)
TrimEnd(s) ==
    IF s # <<>> /\ s[Len(s)] \in WhiteSpace
    THEN TrimEnd(SubSeq(s, 1, Len(s) - 1)) ELSE s

\* String.prototype.trim
Trim(s) == TrimEnd(TrimStart(s))

InitDriver ==
    /\ vpkFolders = MainFolders
    /\ files = <<>>
    /\ tree = <<>>
    /\ pc = "notConstructed"
    /\ requiredArchives = <<>>
    /\ results = NewResults
    /\ dl = NoDownload
    /\ requests = <<>>
    /\ s2vInstalled \in BOOLEAN
    /\ s2vCalls = <<>>
    /\ extractions = <<>>
    /\ stageLog = <<>>
    /\ tempVpkDirExists \in BOOLEAN
    /\ thrown = NoError
    /\ matching = FALSE
    /\ child = NoChild
    /\ orphaned = FALSE
    /\ extractResult = NoExtractResult
    /\ cleanups = 0
    /\ mainResults = <<>>
    /\ mainPc = "start"
    /\ manifestFile \in MarkerFiles
    /\ latestManifestId = <<>>
    /\ forceFlag \in BOOLEAN
    /\ held = <<>>
    /\ manifestOutput = <<>>
    /\ CommandIdle
    /\ ImagesIdle

\* lines 67-71 and 137-140: getLatestManifestId throws, main exits with 1
MainManifestIdFailed ==
    /\ mainPc = "start"
    /\ mainPc' = "exit1"
    /\ UNCHANGED <<manifestFile, latestManifestId, forceFlag, held,
                   manifestOutput>>
    /\ UNCHANGED <<planVars, runVars, command, imageVars>>

\* lines 79-89: readFileSync throws with a code other than ENOENT, main
\* throws it again and exits with 1
MainMarkerUnreadable ==
    /\ mainPc = "start"
    /\ manifestFile.exists
    /\ ~manifestFile.readable
    /\ latestManifestId' \in ManifestIds
    /\ mainPc' = "exit1"
    /\ UNCHANGED <<manifestFile, forceFlag, held, manifestOutput>>
    /\ UNCHANGED <<planVars, runVars, command, imageVars>>

\* the comparison without the force flag
MainCheckNoForce ==
    /\ mainPc = "start"
    /\ manifestFile.exists => manifestFile.readable
    /\ latestManifestId' \in ManifestIds
    /\ LET existingManifestId ==
               IF manifestFile.exists THEN Trim(manifestFile.content)
               ELSE <<>>
       IN IF existingManifestId = latestManifestId'
          THEN /\ mainPc' = "exit0"
               /\ pc' = pc
          ELSE /\ mainPc' = "processing"
               /\ pc' = "start"
    /\ UNCHANGED <<manifestFile, forceFlag, held, manifestOutput>>
    /\ UNCHANGED <<vpkFolders, files, tree, requiredArchives, runVars,
                   command, imageVars>>

\* lines 67-103: the manifest id is there, the marker is read or missing;
\* main exits with 0 or constructs the processor and calls processVPKFiles
MainCheck ==
    /\ mainPc = "start"
    /\ manifestFile.exists => manifestFile.readable
    /\ latestManifestId' \in ManifestIds
    /\ LET existingManifestId ==
               IF manifestFile.exists THEN Trim(manifestFile.content)
               ELSE <<>>
       IN IF existingManifestId = latestManifestId' /\ ~forceFlag
          THEN /\ mainPc' = "exit0"
               /\ pc' = pc
          ELSE /\ mainPc' = "processing"
               /\ pc' = "start"
    /\ UNCHANGED <<manifestFile, forceFlag, held, manifestOutput>>
    /\ UNCHANGED <<vpkFolders, files, tree, requiredArchives, runVars,
                   command, imageVars>>

\* lines 105-136: processVPKFiles returned or threw, and the throw was
\* caught; main writes the marker, and a failure to write is caught
MainWritesMarker ==
    /\ mainPc = "processing"
    /\ Terminated
    /\ \E written \in BOOLEAN :
          manifestFile' = IF written THEN File(latestManifestId)
                          ELSE manifestFile
    /\ mainPc' = "done"
    /\ UNCHANGED <<latestManifestId, forceFlag, held, manifestOutput>>
    /\ UNCHANGED <<planVars, runVars, command, imageVars>>

NextDriver ==
    \/ MainManifestIdFailed
    \/ MainMarkerUnreadable
    \/ MainCheck
    \/ MainWritesMarker
    \/ Next

SpecDriver == InitDriver /\ [][NextDriver]_vars

(***************************************************************************)
(* Properties of main, under SpecDriver.                                   *)
(***************************************************************************)
\* processVPKFiles returned and no failure is counted
RunSucceeded == pc = "Done" /\ results.failed = 0

\* C21: the marker file changes only after a run that succeeded: when
\* processVPKFiles threw, or returned with no folder extracted, the file
\* stays as it was
C21_MarkerOnlyAfterSuccess ==
    [][manifestFile' # manifestFile => RunSucceeded]_vars

\* what main compares the manifest id with
StoredMarker ==
    IF manifestFile.exists THEN Trim(manifestFile.content) ELSE <<>>

\* nothing of the pipeline has happened
NothingRun ==
    /\ pc = "notConstructed"
    /\ requests = <<>>
    /\ s2vCalls = <<>>
    /\ stageLog = <<>>
    /\ child = NoChild
    /\ cleanups = 0

C22_Inv ==
    /\ mainPc \in {"start", "exit0", "exit1"} => NothingRun
    /\ mainPc = "exit0" =>
          /\ ~forceFlag
          /\ manifestFile.exists
          /\ StoredMarker = latestManifestId
    /\ mainPc = "processing" =>
          /\ pc # "notConstructed"
          /\ forceFlag \/ StoredMarker # latestManifestId

\* C22: with the manifest id at hand and the marker file read or missing,
\* main calls processVPKFiles when the marker, trimmed, is not the manifest
\* id or --force is given, and only then; otherwise it exits with 0, and
\* then nothing was downloaded or extracted and the marker file is as it
\* was; a missing file is a marker different from every manifest id. When
\* main exits with 1 before the comparison, nothing has run either
C22_ChangeDetection ==
    /\ []C22_Inv
    /\ [][mainPc = "start" =>
            /\ manifestFile' = manifestFile
            /\ mainPc' = "processing" =>
                  (forceFlag \/ StoredMarker # latestManifestId')
            /\ mainPc' = "exit0" =>
                  (~forceFlag /\ StoredMarker = latestManifestId')
            /\ mainPc' = "exit1" =>
                  \/ Unreadable = manifestFile
                  \/ latestManifestId' = <<>>
            /\ ~manifestFile.exists => mainPc' \in {"processing", "exit1"}]_vars
    /\ [][(mainPc \in {"exit0", "exit1"}) => UNCHANGED vars]_vars

\* main exited with 0: the marker, with a line end after it, is the
\* manifest id
C22_Witness ==
    /\ mainPc = "exit0"
    /\ manifestFile = File(<<"1", "\n">>)
    /\ latestManifestId = <<"1">>

\* the marker is the manifest id and --force starts the run
C22_WitnessForce ==
    /\ mainPc = "processing"
    /\ forceFlag
    /\ StoredMarker = latestManifestId
    /\ pc = "awaitDirectory"

\* no marker file: the run starts
C22_WitnessMissing ==
    /\ mainPc = "processing"
    /\ ~forceFlag
    /\ manifestFile = NoFile
    /\ pc = "awaitDirectory"

(***************************************************************************)
(* The processor used twice: processVPKFiles is called again on the object *)
(* whose first call has returned.                                          *)
(***************************************************************************)
\* lines 21-41 once more: the caller of the first call keeps what it
\* received, which is the object this.results; the constructor is not run
\* again, so this.results and the executable stay, and what is local to a
\* call starts afresh
ProcessVPKFilesAgain ==
    /\ pc = "Done"
    /\ held = <<>>
    /\ held' = mainResults
    /\ tempVpkDirExists' = TRUE
    /\ stageLog' = <<Begin("directoryFetch")>>
    /\ requests' = <<Request("downloadSpecificFiles", <<DirFilePattern>>)>>
    /\ dl' = StartDownload("downloadSpecificFiles")
    /\ Spawn
    /\ pc' = "awaitDirectory"
    /\ requiredArchives' = <<>>
    /\ s2vCalls' = <<>>
    /\ extractions' = <<>>
    /\ thrown' = NoError
    /\ matching' = FALSE
    /\ extractResult' = NoExtractResult
    /\ cleanups' = 0
    /\ mainResults' = <<>>
    /\ UNCHANGED <<vpkFolders, files, tree, results, s2vInstalled, orphaned>>
    /\ UNCHANGED <<mainPc, manifestFile, latestManifestId, forceFlag,
                   manifestOutput, command, imageVars>>

NextReuse ==
    \/ ProcessVPKFilesAgain
    \/ Next

SpecReuse == Init /\ [][NextReuse]_vars

\* C24: the object the caller of the first processVPKFiles call received
\* stays as it was returned, whatever is done with the processor afterwards,
\* and the counters of a second call start at zero with no errors
C24_ResultImmutable ==
    /\ [](held # <<>> => results = held[1])
    /\ [][(held = <<>> /\ held' # <<>>) => results' = NewResults]_vars

(***************************************************************************)
(* getLatestManifestId (part_001 lines 399-455) and the start of main: the *)
(* downloader is run with -manifest-only and its output is searched with   *)
(* the five patterns.  A text is the sequence of its words and characters. *)
(***************************************************************************)
\* lines the downloader can print
ManifestLines ==
    { <<"Manifest", " ", "1", "2", " ", "(">>,
      <<"manifest", " ", "2", " ", "(">>,
      <<"Manifest", " ", "ID", ":", " ", "1">>,
      <<"MANIFEST", ":", "2">>,
      <<"manifest", ":">>,
      <<"1">>,
      <<"Manifest", " ", "2">>,
      <<"Got", " ", "depot", " ", "key">> }

RECURSIVE JoinLines(_)
\* the lines with a line end between them
JoinLines(lines) ==
    IF lines = <<>> THEN <<>>
    ELSE IF Len(lines) = 1 THEN lines[1]
    ELSE lines[1] \o <<"\n">> \o JoinLines(Tail(lines))

\* result.output of a command that succeeded
ManifestOutputs ==
    { JoinLines(lines) : lines \in SeqsUpTo(ManifestLines, MaxLines) }

\* String.prototype.toLowerCase on the words of the texts: the flag i of
\* the patterns
ToLower(t) ==
    CASE t \in {"Manifest", "MANIFEST"} -> "manifest"
      [] t \in {"ID", "Id"} -> "id"
      [] OTHER -> t

\* \d
DigitChars == {"0", "1", "2", "3", "4", "5", "6", "7", "8", "9"}

\* the parts of a pattern: a literal, (\d+), \s*
Lit(text) == [type |-> "lit", text |-> text]
DigitsGroup == [type |-> "digits", text |-> ""]
Spaces == [type |-> "spaces", text |-> ""]

\* lines 427-433
ManifestPatterns ==
    << <<Lit("Manifest"), Lit(" "), DigitsGroup, Lit(" "), Lit("(")>>,
       <<Lit("manifest"), Lit(" "), DigitsGroup, Lit(" "), Lit("(")>>,
       <<Lit("Manifest"), Lit(" "), Lit("ID"), Lit(":"), Lit(" "),
         DigitsGroup>>,
       <<Lit("manifest"), Lit(" "), Lit("id"), Lit(":"), Lit(" "),
         DigitsGroup>>,
       <<Lit("manifest"), Lit(":"), Spaces, DigitsGroup>> >>

RECURSIVE RunLength(_, _, _)
\* the number of characters of the class from pos on: + and * are greedy
RunLength(text, pos, class) ==
    IF pos <= Len(text) /\ text[pos] \in class
    THEN 1 + RunLength(text, pos + 1, class)
    ELSE 0

RECURSIVE MatchFrom(_, _, _, _, _)
\* the parts k.. of the pattern match the text at pos: <<group 1>>, or <<>>
\* for no match.  No part after (\d+) or \s* starts with a digit or white
\* space, so the greedy run is the only candidate
MatchFrom(pattern, k, text, pos, group) ==
    IF k > Len(pattern) THEN <<group>>
    ELSE IF pattern[k].type = "lit"
    THEN IF pos <= Len(text) /\ ToLower(text[pos]) = ToLower(pattern[k].text)
         THEN MatchFrom(pattern, k + 1, text, pos + 1, group)
         ELSE <<>>
    ELSE IF pattern[k].type = "digits"
    THEN LET n == RunLength(text, pos, DigitChars)
         IN IF n >= 1
            THEN MatchFrom(pattern, k + 1, text, pos + n,
                           SubSeq(text, pos, pos + n - 1))
            ELSE <<>>
    ELSE MatchFrom(pattern, k + 1, text,
                   pos + RunLength(text, pos, WhiteSpace), group)

RECURSIVE MatchSearch(_, _, _)
\* String.prototype.match without the flag g: the leftmost match
MatchSearch(text, pattern, start) ==
    IF start > Len(text) THEN <<>>
    ELSE LET m == MatchFrom(pattern, 1, text, start, <<>>)
         IN IF m # <<>> THEN m
            ELSE MatchSearch(text, pattern, start + 1)

Match(text, pattern) == MatchSearch(text, pattern, 1)

RECURSIVE FirstPatternMatch(_, _)
\* lines 435-442: the loop over the patterns from pattern i on
FirstPatternMatch(text, i) ==
    IF i > Len(ManifestPatterns) THEN <<>>
    ELSE LET manifestMatch == Match(text, ManifestPatterns[i])
         IN IF manifestMatch # <<>> THEN manifestMatch
            ELSE FirstPatternMatch(text, i + 1)

\* the loop from the last pattern to the first
ParseManifestIdLastPattern(output) ==
    LET hits == { i \in 1..Len(ManifestPatterns) :
                     Match(output, ManifestPatterns[i]) # <<>> }
    IN  IF hits = {} THEN <<>>
        ELSE Match(output,
                   ManifestPatterns[CHOOSE i \in hits :
                                       \A j \in hits : j <= i])

\* lines 422-447: <<manifestId>>, or <<>> when no pattern matches
ParseManifestId(output) == FirstPatternMatch(output, 1)

InitManifest ==
    /\ vpkFolders = MainFolders
    /\ files = <<>>
    /\ tree = <<>>
    /\ pc = "notConstructed"
    /\ requiredArchives = <<>>
    /\ results = NewResults
    /\ dl = NoDownload
    /\ requests = <<>>
    /\ s2vInstalled = FALSE
    /\ s2vCalls = <<>>
    /\ extractions = <<>>
    /\ stageLog = <<>>
    /\ tempVpkDirExists = FALSE
    /\ thrown = NoError
    /\ matching = FALSE
    /\ child = NoChild
    /\ orphaned = FALSE
    /\ extractResult = NoExtractResult
    /\ cleanups = 0
    /\ mainResults = <<>>
    /\ mainPc = "start"
    /\ manifestFile \in MarkerFiles
    /\ latestManifestId = <<>>
    /\ forceFlag \in BOOLEAN
    /\ held = <<>>
    /\ manifestOutput \in ManifestOutputs
    /\ CommandIdle
    /\ ImagesIdle

\* getLatestManifestId throws and the catch block of main (index.js lines
\* 139-142) calls process.exit(1)
ManifestIdThrows(error) ==
    /\ thrown' = error
    /\ mainPc' = "exit1"
    /\ UNCHANGED <<manifestFile, latestManifestId, forceFlag, held,
                   manifestOutput>>
    /\ UNCHANGED <<planVars, results, requests, s2vInstalled, s2vCalls,
                   extractions, stageLog, tempVpkDirExists, matching,
                   extractResult, cleanups, mainResults, command, imageVars>>

\* lines 400 and 30-63: the executable is missing and cannot be installed
EnsureDepotDownloaderFails ==
    /\ mainPc = "start"
    /\ dl = NoDownload
    /\ ManifestIdThrows(<<"Unsupported platform">>)
    /\ UNCHANGED <<dl, child, orphaned>>

\* lines 400-421: the executable is there, runDepotDownloader is entered
\* with maxAttempts 2
GetLatestManifestId ==
    /\ mainPc = "start"
    /\ dl = NoDownload
    /\ dl' = RunDepotDownloader("getLatestManifestId", 2)
    /\ Spawn
    /\ UNCHANGED <<planVars, results, requests, s2vInstalled, s2vCalls,
                   extractions, stageLog, tempVpkDirExists, thrown, matching,
                   orphaned, extractResult, cleanups, mainResults>>
    /\ UNCHANGED extVars

ManifestReturned ==
    /\ mainPc = "start"
    /\ dl.op = "getLatestManifestId"
    /\ dl.status = "done"

\* lines 449-453: runDepotDownloader returned failure
ManifestDownloadFailed ==
    /\ ManifestReturned
    /\ ~dl.success
    /\ ManifestIdThrows(<<"Failed to get manifest ID", dl.error>>)
    /\ UNCHANGED <<dl, child, orphaned>>

\* lines 423-453: success, and no pattern matches the output
ManifestIdNotParsed ==
    /\ ManifestReturned
    /\ dl.success
    /\ ParseManifestId(manifestOutput) = <<>>
    /\ ManifestIdThrows(<<"Failed to get manifest ID",
                          "Could not parse manifest ID from output">>)
    /\ UNCHANGED <<dl, child, orphaned>>

\* lines 423-442: success, and the first pattern that matches gives the id
\* main receives
ManifestIdFound ==
    /\ ManifestReturned
    /\ dl.success
    /\ ParseManifestId(manifestOutput) # <<>>
    /\ latestManifestId' = ParseManifestId(manifestOutput)[1]
    /\ mainPc' = "gotManifestId"
    /\ UNCHANGED <<manifestFile, forceFlag, held, manifestOutput>>
    /\ UNCHANGED <<planVars, runVars, command, imageVars>>

NextManifest ==
    \/ EnsureDepotDownloaderFails
    \/ GetLatestManifestId
    \/ RunDepotDownloaderAttempt
    \/ ManifestDownloadFailed
    \/ ManifestIdNotParsed
    \/ ManifestIdFound

SpecManifest == InitManifest /\ [][NextManifest]_vars

\* the positions of a text
Positions(text) == 1..Len(text)

\* the characters from..to of the text exist and are all of the class
AllIn(text, from, to, class) ==
    /\ from >= 1
    /\ to <= Len(text)
    /\ \A q \in from..to : text[q] \in class

\* the word at p is the given word in any case
WordAt(text, p, word) == p \in Positions(text) /\ ToLower(text[p]) = word

CharAt(text, p, char) == p \in Positions(text) /\ text[p] = char

\* the number at p, n digits long, is not the start of a longer number
NumberAt(text, p, n) ==
    /\ n >= 1
    /\ AllIn(text, p, p + n - 1, DigitChars)
    /\ ~(p + n \in Positions(text) /\ text[p + n] \in DigitChars)

\* "manifest <digits> (" starts at p and its number is n digits long
ParenFormAt(text, p, n) ==
    /\ WordAt(text, p, "manifest")
    /\ CharAt(text, p + 1, " ")
    /\ NumberAt(text, p + 2, n)
    /\ CharAt(text, p + 2 + n, " ")
    /\ CharAt(text, p + 3 + n, "(")

\* "manifest id: <digits>" starts at p
IdFormAt(text, p, n) ==
    /\ WordAt(text, p, "manifest")
    /\ CharAt(text, p + 1, " ")
    /\ WordAt(text, p + 2, "id")
    /\ CharAt(text, p + 3, ":")
    /\ CharAt(text, p + 4, " ")
    /\ NumberAt(text, p + 5, n)

\* "manifest:", w characters of white space and a number start at p
ColonFormAt(text, p, w, n) ==
    /\ WordAt(text, p, "manifest")
    /\ CharAt(text, p + 1, ":")
    /\ AllIn(text, p + 2, p + 1 + w, WhiteSpace)
    /\ NumberAt(text, p + 2 + w, n)

\* the numbers the recognised forms give, with the place of the form:
\* <<form, position, number>>
Recognised(text) ==
    LET lengths == 0..Len(text)
    IN  { <<1, p, SubSeq(text, p + 2, p + 1 + n)>> :
             <<p, n>> \in { x \in Positions(text) \X lengths :
                               ParenFormAt(text, x[1], x[2]) } }
        \cup
        { <<2, p, SubSeq(text, p + 5, p + 4 + n)>> :
             <<p, n>> \in { x \in Positions(text) \X lengths :
                               IdFormAt(text, x[1], x[2]) } }
        \cup
        { <<3, x[1], SubSeq(text, x[1] + 2 + x[2], x[1] + 1 + x[2] + x[3])>> :
             x \in { y \in Positions(text) \X lengths \X lengths :
                        ColonFormAt(text, y[1], y[2], y[3]) } }

\* Recognised for each output the downloader can print
RecognisedIn ==
    LET recognised == [text \in ManifestOutputs |-> Recognised(text)]
    IN  recognised @@ <<>>

\* the form that comes first in the list decides, and within it the
\* leftmost place
Deciding(text) ==
    { r \in RecognisedIn[text] :
         \A o \in RecognisedIn[text] :
            r[1] < o[1] \/ (r[1] = o[1] /\ r[2] <= o[2]) }

\* the driver never constructed the extractor and nothing of a run exists
PipelineNotStarted ==
    /\ pc = "notConstructed"
    /\ requests = <<>>
    /\ s2vCalls = <<>>
    /\ stageLog = <<>>
    /\ extractions = <<>>
    /\ cleanups = 0
    /\ mainResults = <<>>

C31_Inv ==
    /\ mainPc \in {"start", "gotManifestId", "exit1"}
    /\ PipelineNotStarted
    /\ mainPc = "gotManifestId" =>
          /\ dl.status = "done"
          /\ dl.success
          /\ \E r \in Deciding(manifestOutput) : latestManifestId = r[3]
    /\ mainPc # "gotManifestId" => latestManifestId = <<>>
    /\ mainPc = "exit1" =>
          \/ dl = NoDownload
          \/ dl.status = "done" /\ ~dl.success
          \/ /\ dl.status = "done"
             /\ dl.success
             /\ RecognisedIn[manifestOutput] = {}

\* C31: getLatestManifestId returns an id only when the downloader call
\* succeeded and its output holds one of the recognised forms, the first
\* pattern of the list that matches deciding the id; when the call failed,
\* or succeeded with no such line, it throws and main exits with status 1,
\* with no pipeline started and the marker file as it was
C31_ManifestIdOrExit ==
    /\ []C31_Inv
    /\ [][manifestFile' = manifestFile]_vars
    /\ [][ManifestReturned =>
            IF dl.success /\ RecognisedIn[manifestOutput] # {}
            THEN mainPc' = "gotManifestId"
            ELSE mainPc' = "exit1"]_vars
    /\ [][(mainPc = "exit1") => UNCHANGED vars]_vars

\* two patterns match and give different ids: the earlier one decided
C31_Witness ==
    /\ mainPc = "gotManifestId"
    /\ Match(manifestOutput, ManifestPatterns[1]) = << <<"1", "2">> >>
    /\ Match(manifestOutput, ManifestPatterns[5]) = << <<"2">> >>
    /\ latestManifestId = <<"1", "2">>

\* both attempts of the downloader failed
C31_WitnessFailed ==
    /\ mainPc = "exit1"
    /\ dl.status = "done"
    /\ ~dl.success
    /\ dl.attempt = 2
    /\ RecognisedIn[manifestOutput] # {}

\* the downloader succeeded and printed lines, none of a recognised form
C31_WitnessNotParsed ==
    /\ mainPc = "exit1"
    /\ dl.status = "done"
    /\ dl.success
    /\ Len(manifestOutput) > 0
    /\ manifestFile.exists

====
